---- MODULE Spec2Model ----
(***************************************************************************)
(* Elliott wave analysis core of src/elliott_wave_analyzer.py.             *)
(*                                                                         *)
(* Prices are integers (price ticks).  Python indices are kept: a Python   *)
(* array a of length n is the TLA+ sequence of length n, and a[i] is       *)
(* At(a, i).  Fractional quantities are kept exact by scaling:             *)
(*   - smoothed prices are scaled by the smoothing window size 2*window+1, *)
(*   - confidences are in hundredths (0.85 is 85),                         *)
(*   - ratios against 0.236, 0.886, ... are compared by cross              *)
(*     multiplication in thousandths,                                      *)
(*   - money values of the trading signal are in thousandths of a tick.    *)
(***************************************************************************)
EXTENDS Integers, Sequences, FiniteSets, TLC

VARIABLES
    pc,               \* position inside the call under analysis
    data,             \* the caller's data['Close'] column
    sensitivity,      \* the sensitivity argument, in tenths (5 is 0.5)
    peaks,            \* peaks index array, None before it is computed
    valleys,          \* valleys index array, None before it is computed
    waves,            \* the wave collection: a set of wave records, or None
    current_wave,     \* the current wave state record, or None
    patterns,         \* the pattern names found, or None
    trading_signals,  \* the trading signal record, or None
    result,           \* the value returned by the call, or None
    ret               \* the value returned by a directly called helper, or None

vars == <<pc, data, sensitivity, peaks, valleys, waves, current_wave,
          patterns, trading_signals, result, ret>>

\* An optional value: None, or Some(v) holding v.
None == <<>>
Some(v) == <<v>>
Val(x) == x[1]

\* The missing value of a price series (numpy NaN).
NaN == -1

(***************************************************************************)
(* Bounds of the model.                                                    *)
(***************************************************************************)
\* Series lengths range over MinLen - 1 .. MinLen + MaxExtra.
MaxExtra == 10
\* Largest zigzag amplitude per step.
MaxAmp == 3
\* Largest zigzag half period.
MaxHalf == 6
\* The price level the series are built around.
Base == 100
\* Largest leg step of the directly built pivot sequences.
MaxStep == 3
\* Largest number of pivots of the directly built pivot sequences.
MaxPivots == 11
\* Largest number of unit-step pivots before the varied legs of such a sequence.
MaxLead == 2
\* Largest index at which a directly built wave starts.
MaxStart == 8
\* Longest leg (price difference) of the directly built waves.
MaxLeg == 10

(***************************************************************************)
(* Program constants.                                                      *)
(***************************************************************************)
MinLen == 50
NSegments == 10
MaxKept == 20

(***************************************************************************)
(* Generic helpers.                                                        *)
(***************************************************************************)
At(a, i) == a[i + 1]

Max2(a, b) == IF a >= b THEN a ELSE b
Min2(a, b) == IF a <= b THEN a ELSE b
Abs(a) == IF a >= 0 THEN a ELSE 0 - a

Range(a) == {a[k] : k \in 1..Len(a)}

\* Python's range(lo, hi) as a set of indices.
PyRange(lo, hi) == {i \in lo..(hi - 1) : TRUE}

RECURSIVE SumOver(_, _, _)
SumOver(a, lo, hi) == IF lo > hi THEN 0 ELSE At(a, lo) + SumOver(a, lo + 1, hi)

\* The elements of a finite set of integers in ascending order (np.sort).
RECURSIVE SortSet(_)
SortSet(S) ==
    IF S = {} THEN <<>>
    ELSE LET m == CHOOSE x \in S : \A y \in S : x <= y
         IN <<m>> \o SortSet(S \ {m})

\* floor(sqrt(d)) by bisection: the f in lo..hi with f*f <= d < (f+1)*(f+1).
RECURSIVE ISqrtIn(_, _, _)
ISqrtIn(d, lo, hi) ==
    IF lo >= hi THEN lo
    ELSE LET mid == (lo + hi + 1) \div 2
         IN IF mid * mid <= d THEN ISqrtIn(d, mid, hi) ELSE ISqrtIn(d, lo, mid - 1)

ISqrt(d) == ISqrtIn(d, 0, Min2(d, 46340))

\* l >= k * sqrt(d), for integers l, k >= 0 and d >= 0, without overflow.
GeSqrt(l, k, d) ==
    LET f == ISqrt(d)
        r == l - k * f
    IN  IF l >= k * (f + 1) THEN TRUE
        ELSE IF r < 0 THEN FALSE
        ELSE 2 * k * f * r + r * r >= k * k * (d - f * f)

\* l <= k * sqrt(d), for integers l, k >= 0 and d >= 0, without overflow.
LeSqrt(l, k, d) ==
    LET f == ISqrt(d)
        r == l - k * f
    IN  IF r <= 0 THEN TRUE
        ELSE IF l >= k * (f + 1) THEN FALSE
        ELSE 2 * k * f * r + r * r <= k * k * (d - f * f)

(***************************************************************************)
(* find_pivot_points: cleaning and smoothing.                              *)
(***************************************************************************)
Indices(a) == 0..(Len(a) - 1)

\* Lines 73-82: every NaN entry takes the value of the nearest valid entry
\* (np.abs(valid - i).argmin(): the lower index on a tie).  The valid
\* positions are computed once, before the loop.  A series without a valid
\* entry is left as it is.
FillMissing(prices) ==
    LET valid == {j \in Indices(prices) : At(prices, j) # NaN}
        nearest(i) == CHOOSE j \in valid :
                         \A k \in valid :
                            \/ Abs(j - i) < Abs(k - i)
                            \/ (Abs(j - i) = Abs(k - i) /\ j <= k)
    IN  IF valid = {} THEN prices
        ELSE [k \in 1..Len(prices) |->
                 IF prices[k] = NaN THEN At(prices, nearest(k - 1)) ELSE prices[k]]

\* Line 86.
SmoothWindow(s) == Max2(3, 10 - s)
\* The scale of the smoothed series: the number of points of one window.
Scale(s) == 2 * SmoothWindow(s) + 1

\* Lines 85-88: smoothed_prices, scaled by Scale(s).  Only the indices
\* window .. len - window - 1 are averaged; the edges keep the raw price.
Smooth(prices, s) ==
    LET w == SmoothWindow(s)
        n == Len(prices)
    IN  [k \in 1..n |->
            IF k - 1 >= w /\ k - 1 < n - w
            THEN SumOver(prices, k - 1 - w, k - 1 + w)
            ELSE Scale(s) * prices[k]]

\* Line 91: distance = max(3, int(15 * (1 - sensitivity))).
PeakDistance(s) == Max2(3, (15 * (10 - s)) \div 10)
\* Line 101: width = max(1, int(5 * (1 - sensitivity))).
PeakWidth(s) == Max2(1, (5 * (10 - s)) \div 10)

SeqMax(a) == CHOOSE m \in Range(a) : \A v \in Range(a) : v <= m
SeqMin(a) == CHOOSE m \in Range(a) : \A v \in Range(a) : m <= v

\* n^2 times the variance of the series (np.std is sqrt of it, over n).
VarN2(prices) ==
    LET n == Len(prices)
        sq == [k \in 1..n |-> prices[k] * prices[k]]
        s1 == SumOver(prices, 0, n - 1)
    IN  n * SumOver(sq, 0, n - 1) - s1 * s1

\* Lines 96-98: whether the prominence floor 0.001 * price_range replaces
\* price_std * (0.05 + 0.5 * sensitivity), i.e. std * (1 + s) / 20 < range / 1000.
UsesProminenceFloor(prices, s) ==
    LET n == Len(prices)
        rng == SeqMax(prices) - SeqMin(prices)
    IN  ~ LeSqrt(n * rng, 50 * (1 + s), VarN2(prices))

\* Whether a prominence (scaled by Scale(s)) reaches the prominence argument
\* given to find_peaks (lines 96-98, 108).
ProminenceOk(promS, prices, s) ==
    LET n == Len(prices)
        rng == SeqMax(prices) - SeqMin(prices)
    IN  IF UsesProminenceFloor(prices, s)
        THEN 1000 * promS >= Scale(s) * rng
        ELSE GeSqrt(20 * n * promS, Scale(s) * (1 + s), VarN2(prices))

(***************************************************************************)
(* scipy.signal.find_peaks(x, distance, prominence, width), as called at   *)
(* lines 105-118.  x is a sequence of integers (the scaled smoothed        *)
(* series, or its negation).  The call raises only for an x that is not    *)
(* one-dimensional or a distance below 1, neither of which the caller can  *)
(* produce, so the except branch of lines 119-125 is never taken.          *)
(***************************************************************************)
\* Strict local maxima; a flat top counts once, at its middle index, and a
\* flat run that touches the end of the series is no maximum.
LocalMaxima(x) ==
    LET n == Len(x)
        \* the last index of the run of equal values starting at i
        runEnd(i) == CHOOSE j \in i..(n - 1) :
                        /\ \A k \in i..j : At(x, k) = At(x, i)
                        /\ (j = n - 1 \/ At(x, j + 1) # At(x, i))
    IN  {(i + runEnd(i)) \div 2 :
            i \in {i \in 1..(n - 2) :
                      /\ At(x, i - 1) < At(x, i)
                      /\ runEnd(i) < n - 1
                      /\ At(x, runEnd(i) + 1) < At(x, i)}}

\* The results the distance filter can give: peaks are visited from the
\* highest down, a visited peak that is still kept removes every peak closer
\* than d to it.  The order among peaks of equal height is left to the sort,
\* so every order is a possible outcome.
RECURSIVE SelectByDistance(_, _, _, _)
SelectByDistance(x, rest, kept, d) ==
    IF rest = {} THEN {kept}
    ELSE LET top == {p \in rest : \A q \in rest : At(x, q) <= At(x, p)}
             clash == {p \in top : \E q \in top : q # p /\ Abs(q - p) < d}
         IN  IF clash = {}
             THEN SelectByDistance(x,
                      {q \in rest \ top : \A p \in top : Abs(q - p) >= d},
                      kept \cup top, d)
             ELSE UNION {SelectByDistance(x,
                             {q \in rest : q # p /\ Abs(q - p) >= d},
                             kept \cup {p}, d) : p \in clash}

\* peak_prominences: the window of a peak reaches, on each side, up to the
\* first strictly higher sample; the base of a side is the lowest sample of
\* it that is nearest to the peak.
LeftEdge(x, p) ==
    LET higher == {i \in 0..p : At(x, i) > At(x, p)}
    IN  IF higher = {} THEN 0
        ELSE (CHOOSE i \in higher : \A j \in higher : j <= i) + 1

RightEdge(x, p) ==
    LET higher == {i \in p..(Len(x) - 1) : At(x, i) > At(x, p)}
    IN  IF higher = {} THEN Len(x) - 1
        ELSE (CHOOSE i \in higher : \A j \in higher : i <= j) - 1

LeftBase(x, p) ==
    LET side == LeftEdge(x, p)..p
    IN  CHOOSE i \in side :
           /\ \A j \in side : At(x, i) <= At(x, j)
           /\ \A j \in side : At(x, j) = At(x, i) => j <= i

RightBase(x, p) ==
    LET side == p..RightEdge(x, p)
    IN  CHOOSE i \in side :
           /\ \A j \in side : At(x, i) <= At(x, j)
           /\ \A j \in side : At(x, j) = At(x, i) => i <= j

Prominence(x, p) ==
    At(x, p) - Max2(At(x, LeftBase(x, p)), At(x, RightBase(x, p)))

\* peak_widths at rel_height 0.5, compared with the width argument w:
\* "wide" when the width exceeds w, "tie" when it equals w in exact
\* arithmetic (the float comparison can then fall either way), else "narrow".
WidthCompare(x, w, h2, il, ir) ==
    LET \* the interpolated parts left_ip - il = a/b and ir - right_ip = c/e
        a == IF 2 * At(x, il) < h2 THEN h2 - 2 * At(x, il) ELSE 0
        b == IF 2 * At(x, il) < h2 THEN 2 * At(x, il + 1) - 2 * At(x, il) ELSE 1
        c == IF 2 * At(x, ir) < h2 THEN h2 - 2 * At(x, ir) ELSE 0
        e == IF 2 * At(x, ir) < h2 THEN 2 * At(x, ir - 1) - 2 * At(x, ir) ELSE 1
        lhs == (ir - il - w) * b * e
        rhs == a * e + c * b
    IN  IF lhs > rhs THEN "wide" ELSE IF lhs = rhs THEN "tie" ELSE "narrow"

\* The last sample at or left of p (first at or right of p) that is at or
\* below the evaluation height h2 / 2, no further than the base.
LeftCross(x, p, lb, h2) ==
    CHOOSE i \in lb..p :
        /\ (i = lb \/ 2 * At(x, i) <= h2)
        /\ \A j \in (i + 1)..p : ~ (j = lb \/ 2 * At(x, j) <= h2)

RightCross(x, p, rb, h2) ==
    CHOOSE i \in p..rb :
        /\ (i = rb \/ 2 * At(x, i) <= h2)
        /\ \A j \in p..(i - 1) : ~ (j = rb \/ 2 * At(x, j) <= h2)

WidthAt(x, p, w, h2) ==
    WidthCompare(x, w, h2, LeftCross(x, p, LeftBase(x, p), h2),
                 RightCross(x, p, RightBase(x, p), h2))

WidthClass(x, p, w) == WidthAt(x, p, w, 2 * At(x, p) - Prominence(x, p))

\* The index sets find_peaks can return for x, with the distance d, the
\* width w and the prominence argument computed from prices and s.
FindPeaks(x, d, prices, s, w) ==
    LET byDistance == SelectByDistance(x, LocalMaxima(x), {}, d)
        prominent(S) == {p \in S : ProminenceOk(Prominence(x, p), prices, s)}
        sure(S) == {p \in prominent(S) : WidthClass(x, p, w) = "wide"}
        open(S) == {p \in prominent(S) : WidthClass(x, p, w) = "tie"}
    IN  UNION {{sure(S) \cup T : T \in SUBSET open(S)} : S \in byDistance}

Negate(x) == [k \in 1..Len(x) |-> 0 - x[k]]

(***************************************************************************)
(* find_pivot_points: importance filter, alternation, coarse fallback.     *)
(***************************************************************************)
\* Twice the median (np.median) of the importances of the pivots P:
\* the smoothed price for peaks (sign 1), its negative for valleys (sign -1).
Median2(x, sign, P) ==
    LET imp(p) == sign * At(x, p)
        m == Cardinality(P)
        rank(p) == Cardinality({q \in P : imp(q) < imp(p) \/ (imp(q) = imp(p) /\ q < p)})
        nth(r) == imp(CHOOSE p \in P : rank(p) = r)
    IN  IF m % 2 = 1 THEN 2 * nth(m \div 2)
        ELSE nth(m \div 2 - 1) + nth(m \div 2)

\* Lines 128-140: with more than 3 pivots of a kind, keep those whose
\* importance is greater than 0.8 * median importance
\* (imp > median * 0.8, i.e. 5 * imp > 2 * (2 * median)).
ImportanceFilter(x, sign, P) ==
    IF Cardinality(P) > 3
    THEN {p \in P : 5 * sign * At(x, p) > 2 * Median2(x, sign, P)}
    ELSE P

\* Lines 147-165 (and 244-254): scan the pivots in index order and keep a
\* pivot only when its kind differs from the kind of the last kept one.
\* piv is the sorted pivot array, kinds[k] the kind of piv[k].
RECURSIVE Alternate(_, _, _, _)
Alternate(piv, kinds, k, last) ==
    IF k > Len(piv) THEN <<>>
    ELSE IF kinds[k] # last
         THEN <<k>> \o Alternate(piv, kinds, k + 1, kinds[k])
         ELSE Alternate(piv, kinds, k + 1, last)

\* The positions of piv that survive the alternation scan.
AlternatePositions(piv, kinds) ==
    IF Len(piv) = 0 THEN <<>> ELSE Alternate(piv, kinds, 1, "none")

\* np.argmax / np.argmin of prices[lo:hi]: the first index of the extreme.
ArgMax(prices, lo, hi) ==
    CHOOSE i \in lo..(hi - 1) :
        /\ \A j \in lo..(hi - 1) : At(prices, j) <= At(prices, i)
        /\ \A j \in lo..(i - 1) : At(prices, j) < At(prices, i)

ArgMin(prices, lo, hi) ==
    CHOOSE i \in lo..(hi - 1) :
        /\ \A j \in lo..(hi - 1) : At(prices, i) <= At(prices, j)
        /\ \A j \in lo..(i - 1) : At(prices, i) < At(prices, j)

\* Lines 174-190: the coarse fallback.  Segment 0 is skipped (range(1, 10)).
\* The indices of different segments differ, so every index is appended.
CoarsePeaks(prices) ==
    LET size == Len(prices) \div NSegments
    IN  [i \in 1..(NSegments - 1) |-> ArgMax(prices, i * size, (i + 1) * size)]

CoarseValleys(prices) ==
    LET size == Len(prices) \div NSegments
    IN  [i \in 1..(NSegments - 1) |-> ArgMin(prices, i * size, (i + 1) * size)]

\* Lines 143-169 for given non-empty index sets P (peaks) and V (valleys).
AlternatedPivots(P, V) ==
    LET piv == SortSet(P \cup V)
        kinds == [k \in 1..Len(piv) |-> IF piv[k] \in P THEN "peak" ELSE "valley"]
        pos == AlternatePositions(piv, kinds)
        kept(kind) == {piv[pos[k]] : k \in {k \in 1..Len(pos) : kinds[pos[k]] = kind}}
    IN  [peaks |-> SortSet(kept("peak")), valleys |-> SortSet(kept("valley"))]

\* Lines 143-169: the alternation pass, made only when both kinds exist.
AlternatedIfBoth(P1, V1) ==
    IF P1 # {} /\ V1 # {}
    THEN AlternatedPivots(P1, V1)
    ELSE [peaks |-> SortSet(P1), valleys |-> SortSet(V1)]

\* Lines 172-190: the coarse fallback replaces both arrays when one is empty.
WithCoarseFallback(prices, alt) ==
    IF Len(alt.peaks) = 0 \/ Len(alt.valleys) = 0
    THEN [peaks |-> CoarsePeaks(prices), valleys |-> CoarseValleys(prices)]
    ELSE alt

\* Lines 127-192 for the index sets P0, V0 returned by find_peaks.
PivotsFrom(prices, sm, P0, V0) ==
    WithCoarseFallback(prices,
        AlternatedIfBoth(ImportanceFilter(sm, 1, P0),
                         ImportanceFilter(sm, 0 - 1, V0)))

\* Lines 91-192 for the filled prices and their smoothed series sm.
PivotsOfSmoothed(prices, sm, s) ==
    {[prices |-> prices] @@ PivotsFrom(prices, sm, P0, V0) :
        P0 \in FindPeaks(sm, PeakDistance(s), prices, s, PeakWidth(s)),
        V0 \in FindPeaks(Negate(sm), PeakDistance(s), prices, s, PeakWidth(s))}

\* Lines 85-192 for the filled prices.
PivotsOfFilled(prices, s) == PivotsOfSmoothed(prices, Smooth(prices, s), s)

\* find_pivot_points(prices, sensitivity): the possible results, each with
\* the prices array as the function leaves it (NaN entries are overwritten
\* in the array it was given).
find_pivot_points(prices0, s) == PivotsOfFilled(FillMissing(prices0), s)

(***************************************************************************)
(* Waves.  A wave of the collection is a record                            *)
(*   type       : "Impulse" or "Corrective"   (the "Impulse_"/"Corrective_"*)
(*                part of its key),                                        *)
(*   ord        : the ordinal that ends its key,                           *)
(*   legs       : a function from the leg labels present to [idx, price],  *)
(* and, when the wave has them, with the fields                            *)
(*   direction  : "up" or "down",                                          *)
(*   confidence : in hundredths,                                           *)
(*   fibonacci_levels : a function from ratio label to price (thousandths).*)
(* A collection is the sequence of its waves in insertion order (a Python  *)
(* dict iterates in insertion order).                                      *)
(***************************************************************************)
ImpulseLabels == {"0", "1", "2", "3", "4", "5"}
CorrectiveLabels == {"0", "A", "B", "C"}

Leg(prices, i) == [idx |-> i, price |-> At(prices, i)]

Has(wave, labels) == labels \subseteq DOMAIN wave.legs

Price(wave, label) == wave.legs[label].price

\* wave.get("direction", "").
Direction(wave) == IF "direction" \in DOMAIN wave THEN wave.direction ELSE ""

\* _find_local_minimum / _find_local_maximum, lines 400-418.
find_local_minimum(prices, start_idx, end_idx) ==
    LET lo == Max2(0, start_idx)
        hi == Min2(Len(prices) - 1, end_idx)
    IN  IF lo >= hi THEN lo ELSE ArgMin(prices, lo, hi + 1)

find_local_maximum(prices, start_idx, end_idx) ==
    LET lo == Max2(0, start_idx)
        hi == Min2(Len(prices) - 1, end_idx)
    IN  IF lo >= hi THEN lo ELSE ArgMax(prices, lo, hi + 1)

\* The confidence the alternative builder gives its wave (lines 372, 395).
AlternativeConfidence == 90

\* _create_alternative_wave_structure, lines 338-398.
create_alternative_wave_structure(prices) ==
    LET n == Len(prices)
        step == n \div 6
        up == At(prices, n - 1) > At(prices, 0)
        i1 == Min2(n - 1, step)
        i3 == Min2(n - 1, 3 * step)
        i5 == Min2(n - 1, 5 * step)
        i2 == IF up THEN find_local_minimum(prices, i1 - step \div 2, i1 + step \div 2)
                    ELSE find_local_maximum(prices, i1 - step \div 2, i1 + step \div 2)
        i4 == IF up THEN find_local_minimum(prices, i3 - step \div 2, i3 + step \div 2)
                    ELSE find_local_maximum(prices, i3 - step \div 2, i3 + step \div 2)
    IN  << [type |-> "Impulse", ord |-> 0,
            direction |-> IF up THEN "up" ELSE "down",
            legs |-> ("0" :> Leg(prices, 0)) @@ ("1" :> Leg(prices, i1)) @@
                     ("2" :> Leg(prices, i2)) @@ ("3" :> Leg(prices, i3)) @@
                     ("4" :> Leg(prices, i4)) @@ ("5" :> Leg(prices, i5)),
            confidence |-> AlternativeConfidence] >>

\* lo <= num / den <= hi for lo, hi in thousandths, as numpy floats decide
\* it: a zero denominator gives inf or nan, which is in no range.
RatioIn(num, den, lo, hi) ==
    IF den > 0 THEN lo * den <= 1000 * num /\ 1000 * num <= hi * den
    ELSE IF den < 0 THEN lo * den >= 1000 * num /\ 1000 * num >= hi * den
    ELSE FALSE

\* The impulse validation asking leg 3 to be as long as leg 1 (1.0 for 0.9).
verify_impulse_full_length(wave) ==
    IF ~ Has(wave, ImpulseLabels) THEN FALSE
    ELSE LET p0 == Price(wave, "0")
             p1 == Price(wave, "1")
             p2 == Price(wave, "2")
             p3 == Price(wave, "3")
             p4 == Price(wave, "4")
         IN  IF Direction(wave) = "up"
             THEN /\ ~ (p2 < p0)
                  /\ ~ (p3 - p2 < p1 - p0)
                  /\ ~ (p4 <= p1)
                  /\ RatioIn(p1 - p2, p1 - p0, 236, 886)
             ELSE IF Direction(wave) = "down"
             THEN /\ ~ (p2 > p0)
                  /\ ~ (p2 - p3 < p0 - p1)
                  /\ ~ (p4 >= p1)
                  /\ RatioIn(p2 - p1, p0 - p1, 236, 886)
             ELSE FALSE

\* The corrective validation without the upper limit of the C extension.
verify_corrective_unbounded_C(wave) ==
    IF ~ Has(wave, CorrectiveLabels) THEN FALSE
    ELSE LET p0 == Price(wave, "0")
             pA == Price(wave, "A")
             pB == Price(wave, "B")
             pC == Price(wave, "C")
         IN  IF Direction(wave) = "down"
             THEN /\ ~ (pB > p0)
                  /\ RatioIn(pB - pA, p0 - pA, 236, 886)
                  /\ RatioIn(pB - pC, p0 - pA, 618, 2618000)
             ELSE IF Direction(wave) = "up"
             THEN /\ ~ (pB < p0)
                  /\ RatioIn(pA - pB, pA - p0, 236, 886)
                  /\ RatioIn(pC - pB, pA - p0, 618, 2618000)
             ELSE FALSE

\* _verify_impulse_wave_fibonacci, lines 447-512.
verify_impulse_wave_fibonacci(wave) ==
    IF ~ Has(wave, ImpulseLabels) THEN FALSE
    ELSE LET p0 == Price(wave, "0")
             p1 == Price(wave, "1")
             p2 == Price(wave, "2")
             p3 == Price(wave, "3")
             p4 == Price(wave, "4")
         IN  IF Direction(wave) = "up"
             THEN /\ ~ (p2 < p0)
                  /\ ~ (10 * (p3 - p2) < 9 * (p1 - p0))
                  /\ ~ (p4 <= p1)
                  /\ RatioIn(p1 - p2, p1 - p0, 236, 886)
             ELSE IF Direction(wave) = "down"
             THEN /\ ~ (p2 > p0)
                  /\ ~ (10 * (p2 - p3) < 9 * (p0 - p1))
                  /\ ~ (p4 >= p1)
                  /\ RatioIn(p2 - p1, p0 - p1, 236, 886)
             ELSE FALSE

\* _verify_corrective_wave_fibonacci, lines 514-569.
verify_corrective_wave_fibonacci(wave) ==
    IF ~ Has(wave, CorrectiveLabels) THEN FALSE
    ELSE LET p0 == Price(wave, "0")
             pA == Price(wave, "A")
             pB == Price(wave, "B")
             pC == Price(wave, "C")
         IN  IF Direction(wave) = "down"
             THEN /\ ~ (pB > p0)
                  /\ RatioIn(pB - pA, p0 - pA, 236, 886)
                  /\ RatioIn(pB - pC, p0 - pA, 618, 2618)
             ELSE IF Direction(wave) = "up"
             THEN /\ ~ (pB < p0)
                  /\ RatioIn(pA - pB, pA - p0, 236, 886)
                  /\ RatioIn(pC - pB, pA - p0, 618, 2618)
             ELSE FALSE

\* The divisors of the divisions _verify_impulse_wave_fibonacci evaluates
\* for the wave, in order: line 480 (506) is reached when none of the tests
\* of lines 467, 473, 477 (493, 499, 503) returned.
impulse_divisors(wave) ==
    IF ~ Has(wave, ImpulseLabels) THEN <<>>
    ELSE LET p0 == Price(wave, "0")
             p1 == Price(wave, "1")
             p2 == Price(wave, "2")
             p3 == Price(wave, "3")
             p4 == Price(wave, "4")
         IN  IF Direction(wave) = "up"
             THEN IF p2 < p0 \/ 10 * (p3 - p2) < 9 * (p1 - p0) \/ p4 <= p1
                  THEN <<>> ELSE <<p1 - p0>>
             ELSE IF Direction(wave) = "down"
             THEN IF p2 > p0 \/ 10 * (p2 - p3) < 9 * (p0 - p1) \/ p4 >= p1
                  THEN <<>> ELSE <<p0 - p1>>
             ELSE <<>>

\* The divisors of the divisions _verify_corrective_wave_fibonacci
\* evaluates: fib_B at line 534 (556), then fib_C at line 541 (563) when
\* fib_B is in its range.
corrective_divisors(wave) ==
    IF ~ Has(wave, CorrectiveLabels) THEN <<>>
    ELSE LET p0 == Price(wave, "0")
             pA == Price(wave, "A")
             pB == Price(wave, "B")
         IN  IF Direction(wave) = "down"
             THEN IF pB > p0 THEN <<>>
                  ELSE IF RatioIn(pB - pA, p0 - pA, 236, 886)
                  THEN <<p0 - pA, p0 - pA>> ELSE <<p0 - pA>>
             ELSE IF Direction(wave) = "up"
             THEN IF pB < p0 THEN <<>>
                  ELSE IF RatioIn(pA - pB, pA - p0, 236, 886)
                  THEN <<pA - p0, pA - p0>> ELSE <<pA - p0>>
             ELSE <<>>

\* _calculate_fibonacci_levels, lines 420-445; prices in thousandths.
calculate_fibonacci_levels(start_price, end_price, direction) ==
    LET rng == Abs(end_price - start_price)
        sign == IF direction = "up" THEN 1 ELSE 0 - 1
        at(r) == 1000 * start_price + sign * r * rng
    IN  ("0.236" :> at(236)) @@ ("0.382" :> at(382)) @@ ("0.5" :> at(500)) @@
        ("0.618" :> at(618)) @@ ("0.786" :> at(786)) @@ ("1.0" :> 1000 * end_price) @@
        ("1.272" :> at(1272)) @@ ("1.618" :> at(1618))

\* _calculate_wave_confidence, lines 571-666, in hundredths.
calculate_wave_confidence(wave) ==
    LET impulse ==
            LET p0 == Price(wave, "0")
                p1 == Price(wave, "1")
                p2 == Price(wave, "2")
                p3 == Price(wave, "3")
                p4 == Price(wave, "4")
                p5 == Price(wave, "5")
            IN  IF Direction(wave) = "up"
                THEN (IF p3 - p2 > p1 - p0 /\ p3 - p2 > p5 - p4 THEN 15 ELSE 0)
                     + (IF p4 > p1 THEN 10 ELSE 0)
                     + (IF p2 > p0 THEN 5 ELSE 0)
                ELSE IF Direction(wave) = "down"
                THEN (IF p2 - p3 > p0 - p1 /\ p2 - p3 > p4 - p5 THEN 15 ELSE 0)
                     + (IF p4 < p1 THEN 10 ELSE 0)
                     + (IF p2 < p0 THEN 5 ELSE 0)
                ELSE 0
        corrective ==
            LET p0 == Price(wave, "0")
                pA == Price(wave, "A")
                pB == Price(wave, "B")
                pC == Price(wave, "C")
            IN  IF Direction(wave) = "down"
                THEN (IF RatioIn(pB - pA, p0 - pA, 382, 786) THEN 10 ELSE 0)
                     + (IF RatioIn(pB - pC, p0 - pA, 618, 1618) THEN 10 ELSE 0)
                ELSE IF Direction(wave) = "up"
                THEN (IF RatioIn(pA - pB, pA - p0, 382, 786) THEN 10 ELSE 0)
                     + (IF RatioIn(pC - pB, pA - p0, 618, 1618) THEN 10 ELSE 0)
                ELSE 0
        confidence == 50 + (IF Has(wave, ImpulseLabels) THEN impulse
                            ELSE IF Has(wave, CorrectiveLabels) THEN corrective
                            ELSE 0)
    IN  Max2(50, Min2(100, confidence))

(***************************************************************************)
(* identify_impulse_waves and identify_corrective_waves.  pivots is the    *)
(* array of pivot indices, pivot_types the kind of each.                   *)
(***************************************************************************)
\* Lines 689, 695 (and 813, 819): the start offsets the loops visit.
SearchStarts(pivots) ==
    LET lookback == Min2(Len(pivots), 10)
    IN  PyRange(0, Len(pivots) - lookback + 1)

KindsAt(pivot_types, start, kinds) ==
    \A k \in 1..Len(kinds) : At(pivot_types, start + k - 1) = kinds[k]

\* Lines 697-728: whether the window at start is an Up impulse.
ImpulseUpAt(prices, pivots, pivot_types, start) ==
    /\ ~ (start + 8 >= Len(pivots))
    /\ KindsAt(pivot_types, start, <<"valley", "peak", "valley", "peak", "valley", "peak">>)
    /\ LET w(k) == At(prices, At(pivots, start + k))
       IN  /\ w(1) > w(0)
           /\ w(2) < w(1)
           /\ w(3) > w(1)
           /\ w(4) < w(3)
           /\ w(4) > w(2)
           /\ w(5) > w(3)

\* Lines 745-776: whether the window at start is a Down impulse.
ImpulseDownAt(prices, pivots, pivot_types, start) ==
    /\ ~ (start + 8 >= Len(pivots))
    /\ KindsAt(pivot_types, start, <<"peak", "valley", "peak", "valley", "peak", "valley">>)
    /\ LET w(k) == At(prices, At(pivots, start + k))
       IN  /\ w(1) < w(0)
           /\ w(2) > w(1)
           /\ w(3) < w(1)
           /\ w(4) > w(3)
           /\ w(4) < w(2)
           /\ w(5) < w(3)

\* Lines 821-844: whether the window at start is a Down corrective.
CorrectiveDownAt(prices, pivots, pivot_types, start) ==
    /\ ~ (start + 4 >= Len(pivots))
    /\ KindsAt(pivot_types, start, <<"peak", "valley", "peak", "valley">>)
    /\ LET w(k) == At(prices, At(pivots, start + k))
       IN  /\ w(1) < w(0)
           /\ w(2) > w(1)
           /\ w(2) < w(0)
           /\ w(3) < w(1)

\* Lines 859-882: whether the window at start is an Up corrective.
CorrectiveUpAt(prices, pivots, pivot_types, start) ==
    /\ ~ (start + 4 >= Len(pivots))
    /\ KindsAt(pivot_types, start, <<"valley", "peak", "valley", "peak">>)
    /\ LET w(k) == At(prices, At(pivots, start + k))
       IN  /\ w(1) > w(0)
           /\ w(2) < w(1)
           /\ w(2) > w(0)
           /\ w(3) > w(1)

\* The candidate built from the window at start; labels in leg order.
Candidate(prices, pivots, start, type, direction, labels, ord) ==
    [type |-> type, ord |-> ord, direction |-> direction,
     legs |-> [l \in Range(labels) |->
                  Leg(prices, At(pivots, start + (CHOOSE k \in 1..Len(labels) : labels[k] = l) - 1))]]

\* The candidates of one search: the first loop's matches (at the starts
\* a), then the second loop's (at the starts b), numbered by one shared
\* counter.
CandidateList(prices, pivots, type, labels, a, firstDir, b, secondDir) ==
    [k \in 1..(Len(a) + Len(b)) |->
        IF k <= Len(a)
        THEN Candidate(prices, pivots, a[k], type, firstDir, labels, k - 1)
        ELSE Candidate(prices, pivots, b[k - Len(a)], type, secondDir, labels, k - 1)]

\* identify_impulse_waves, lines 668-790: the Up loop, then the Down loop.
identify_impulse_waves(prices, pivots, pivot_types) ==
    CandidateList(prices, pivots, "Impulse", <<"0", "1", "2", "3", "4", "5">>,
                  SortSet({st \in SearchStarts(pivots) :
                              ImpulseUpAt(prices, pivots, pivot_types, st)}), "up",
                  SortSet({st \in SearchStarts(pivots) :
                              ImpulseDownAt(prices, pivots, pivot_types, st)}), "down")

\* identify_corrective_waves, lines 792-894: the Down loop, then the Up loop.
identify_corrective_waves(prices, pivots, pivot_types) ==
    CandidateList(prices, pivots, "Corrective", <<"0", "A", "B", "C">>,
                  SortSet({st \in SearchStarts(pivots) :
                              CorrectiveDownAt(prices, pivots, pivot_types, st)}), "down",
                  SortSet({st \in SearchStarts(pivots) :
                              CorrectiveUpAt(prices, pivots, pivot_types, st)}), "up")

(***************************************************************************)
(* analyze_wave_structure, lines 194-336.                                  *)
(***************************************************************************)
\* np.sort of an array: ascending, duplicates kept.
RECURSIVE NpSort(_)
NpSort(a) ==
    IF Len(a) = 0 THEN <<>>
    ELSE LET k == CHOOSE i \in 1..Len(a) : \A j \in 1..Len(a) : a[i] <= a[j]
         IN  <<a[k]>> \o NpSort(SubSeq(a, 1, k - 1) \o SubSeq(a, k + 1, Len(a)))

\* Lines 218-226: with more than 20 pivots of a kind, the 20 with the
\* highest importance (the price for peaks, sign 1; its negative for
\* valleys, sign -1), most important first (argsort reversed: among equal
\* importances the later array position comes first).
RECURSIVE TakeTop(_, _, _, _)
TakeTop(a, prices, sign, count) ==
    IF count = 0 \/ Len(a) = 0 THEN <<>>
    ELSE LET imp(i) == sign * At(prices, i)
             k == CHOOSE i \in 1..Len(a) :
                     \A j \in 1..Len(a) :
                        imp(a[i]) > imp(a[j]) \/ (imp(a[i]) = imp(a[j]) /\ i >= j)
         IN  <<a[k]>> \o TakeTop(SubSeq(a, 1, k - 1) \o SubSeq(a, k + 1, Len(a)),
                                 prices, sign, count - 1)

MostImportant(a, prices, sign) ==
    IF Len(a) > MaxKept THEN TakeTop(a, prices, sign, MaxKept) ELSE a

\* Lines 229-254: the kept peaks pk and valleys vl merged and sorted (all),
\* and the pivots that survive the alternation scan with their kinds.
MergeKept(pk, vl) ==
    LET all == NpSort(pk \o vl)
        kinds == [k \in 1..Len(all) |-> IF all[k] \in Range(pk) THEN "peak" ELSE "valley"]
        pos == AlternatePositions(all, kinds)
    IN  [all |-> all,
         pivots |-> [k \in 1..Len(pos) |-> all[pos[k]]],
         pivot_types |-> [k \in 1..Len(pos) |-> kinds[pos[k]]]]

\* Lines 217-254.
MergedPivots(prices, peaks0, valleys0) ==
    MergeKept(MostImportant(peaks0, prices, 1),
              MostImportant(valleys0, prices, 0 - 1))

\* The default confidences of unvalidated candidates, lines 332 and 334.
DefaultImpulseConfidence == 85
DefaultCorrectiveConfidence == 75

\* Lines 292-319: the candidates that pass validation, each with its
\* Fibonacci levels and its computed confidence.
VerifiedWave(wave, last) ==
    [fibonacci_levels |->
         calculate_fibonacci_levels(Price(wave, "0"), Price(wave, last), Direction(wave)),
     confidence |-> calculate_wave_confidence(wave)] @@ wave

VerifiedAt(candidates, order, last) ==
    [k \in 1..Len(order) |-> VerifiedWave(candidates[order[k]], last)]

\* Lines 292-304.
VerifiedImpulses(candidates) ==
    VerifiedAt(candidates,
               SortSet({k \in 1..Len(candidates) :
                           verify_impulse_wave_fibonacci(candidates[k])}), "5")

\* Lines 307-319.
VerifiedCorrectives(candidates) ==
    VerifiedAt(candidates,
               SortSet({k \in 1..Len(candidates) :
                           verify_corrective_wave_fibonacci(candidates[k])}), "C")

\* The default confidences given as percentages (85 and 75 for 0.85 and 0.75).
WithDefaultPercent(wave) ==
    IF "confidence" \in DOMAIN wave THEN wave
    ELSE [confidence |-> IF wave.type = "Impulse" THEN 8500 ELSE 7500] @@ wave

\* Lines 329-334.
WithDefaultConfidence(wave) ==
    IF "confidence" \in DOMAIN wave THEN wave
    ELSE [confidence |-> IF wave.type = "Impulse"
                         THEN DefaultImpulseConfidence
                         ELSE DefaultCorrectiveConfidence] @@ wave

WithDefaults(chosen) == [k \in 1..Len(chosen) |-> WithDefaultConfidence(chosen[k])]

\* The validated waves only, with no fallback to the candidates.
ChosenWavesNoFallback(verified, candidates) == verified

\* Lines 322-326: the validated waves, or every candidate when none is.
ChosenWaves(verified, candidates) ==
    IF Len(verified) = 0 THEN candidates ELSE verified

\* Lines 292-336 for the candidates of the two searches.
SelectWaves(impulse_waves, corrective_waves) ==
    WithDefaults(ChosenWaves(
        VerifiedImpulses(impulse_waves) \o VerifiedCorrectives(corrective_waves),
        impulse_waves \o corrective_waves))

\* Lines 232-336 for the merged pivots m.
AnalyzeMerged(prices, m) ==
    IF Len(m.all) < 6 \/ Len(m.pivots) < 5
    THEN create_alternative_wave_structure(prices)
    ELSE SelectWaves(identify_impulse_waves(prices, m.pivots, m.pivot_types),
                     identify_corrective_waves(prices, m.pivots, m.pivot_types))

analyze_wave_structure(prices, peaks0, valleys0) ==
    IF Len(peaks0) < 3 \/ Len(valleys0) < 3
    THEN create_alternative_wave_structure(prices)
    ELSE AnalyzeMerged(prices, MergedPivots(prices, peaks0, valleys0))

(***************************************************************************)
(* Texts.  The Arabic texts of the source are sequences of letter groups,  *)
(* cut so that every marker the code searches for ("x in text") is a       *)
(* contiguous run of groups wherever it occurs in a text; a word the       *)
(* markers do not occur in is one group.  "x in text" is then the search   *)
(* for a contiguous run.                                                   *)
(***************************************************************************)
Contains(text, marker) ==
    \E i \in 1..(Len(text) - Len(marker) + 1) :
        SubSeq(text, i, i + Len(marker) - 1) = marker

RECURSIVE Sentence(_)
Sentence(words) ==
    IF Len(words) = 0 THEN <<>>
    ELSE IF Len(words) = 1 THEN words[1]
    ELSE words[1] \o <<" ">> \o Sentence(Tail(words))

\* The markers searched for by generate_trading_signals.
Saeida == <<"saeid", "a">>
Habita == <<"habit", "a">>
Shira == <<"shira">>
Bay == <<"bay">>
Suudi == <<"suud", "i">>
Hubuti == <<"hubut", "i">>
Saeid == <<"saeid">>
Habit == <<"habit">>
Tashih == <<"tashih">>

\* Words of the position texts.
AlSaeida == <<"al">> \o Saeida
AlHabita == <<"al">> \o Habita
Hubutiya == Hubuti \o <<"a">>
AlTashih == <<"al">> \o Tashih
AlTashihiya == <<"al">> \o Tashih \o <<"iya">>
Tashihiya == Tashih \o <<"iya">>
Op(word) == <<word>>

UnknownText == Sentence(<<Op("ghayr"), Op("maeruf")>>)

\* The position texts of determine_current_wave, by source line.
Position1005 == Sentence(<<Op("mutawaqqae"), Op("bidaya"), Tashih, Hubuti, Op("-"),
                           Op("nihaya"), Op("almawja"), Op("aldafiea"), AlSaeida>>)
Position1024 == Sentence(<<Op("mutawaqqae"), Op("bidaya"), Tashih, Suudi, Op("-"),
                           Op("nihaya"), Op("almawja"), Op("aldafiea"), AlHabita>>)
PositionLeg(done, doneWord, next, nextWord, tail) ==
    Sentence(<<Op("iktimal"), Op("almawja"), Op(done), doneWord \o <<",">>,
               Op("mutawaqqae"), Op("bidaya"), Op("almawja"), Op(next), nextWord>> \o tail)
Strongest == <<Op("(aqwa"), Op("mawja)")>>
LastOfCorrection == <<Op("(akhir"), Op("mawja"), Op("fi"), AlTashih \o <<")">> >>
MidCorrection == <<Op("(fi"), Op("muntasaf"), AlTashih \o <<")">> >>
Position1044 == PositionLeg("4", AlHabita, "5", AlSaeida, <<>>)
Position1052 == PositionLeg("4", AlSaeida, "5", AlHabita, <<>>)
Position1061 == PositionLeg("2", AlHabita, "3", AlSaeida, Strongest)
Position1069 == PositionLeg("2", AlSaeida, "3", AlHabita, Strongest)
PositionForming(kind, dirWord) ==
    Sentence(<<Op("bidaya"), Op("tashakkul"), Op("mawja"), kind, dirWord,
               Op("muhtamala"), Op("(yufaddal"), Op("alintizar)")>>)
Position1083 == PositionForming(Op("dafiea"), Saeida)
Position1085 == PositionForming(Op("dafiea"), Habita)
PositionCorrectiveDone(dirWord, nextWord) ==
    Sentence(<<Op("iktimal"), Op("almawja"), AlTashihiya, dirWord, Op("A-B-C,"),
               Op("mutawaqqae"), Op("bidaya"), Op("mawja"), Op("dafiea"), nextWord,
               Op("jadida")>>)
Position1093 == PositionCorrectiveDone(AlSaeida, Hubutiya)
Position1101 == PositionCorrectiveDone(AlHabita, Saeida)
Position1117 == PositionLeg("B", AlHabita, "C", AlSaeida, LastOfCorrection)
Position1119 == PositionLeg("B", AlSaeida, "C", AlHabita, LastOfCorrection)
Position1131 == PositionLeg("A", AlSaeida, "B", AlHabita, MidCorrection)
Position1133 == PositionLeg("A", AlHabita, "B", AlSaeida, MidCorrection)
Position1145 == PositionForming(Tashihiya, Saeida)
Position1147 == PositionForming(Tashihiya, Habita)

\* The trend texts of generate_trading_signals, lines 1278-1291.
TrendUpConfirmed == Sentence(<<Saeid, Op("muakkad"), Op("100%")>>)
TrendDownConfirmed == Sentence(<<Habit, Op("muakkad"), Op("100%")>>)
TrendCorrectionUp == Sentence(<<Tashih, Saeid, Op("-"), Op("intizar")>>)
TrendCorrectionDown == Sentence(<<Tashih, Habit, Op("-"), Op("intizar")>>)

(***************************************************************************)
(* determine_current_wave, lines 896-1149.                                 *)
(***************************************************************************)
\* The default result with the confidence 0.5 that the dict.get calls of
\* lines 938 and 1408 fall back to.
DefaultStateHalfConfidence ==
    [current_wave |-> "unknown", next_wave |-> "unknown", position |-> UnknownText,
     confidence |-> 50, wave_status |-> "completed", correction_phase |-> FALSE,
     trend_confirmed |-> FALSE, entry_signal |-> FALSE,
     correction_targets |-> <<>>, correction_progress |-> 0]

\* Lines 912-923: the default result.
DefaultState ==
    [current_wave |-> "unknown", next_wave |-> "unknown", position |-> UnknownText,
     confidence |-> 90, wave_status |-> "completed", correction_phase |-> FALSE,
     trend_confirmed |-> FALSE, entry_signal |-> FALSE,
     correction_targets |-> <<>>, correction_progress |-> 0]

\* wave_data.get("confidence", 0.5).
ConfidenceOr(wave, default) ==
    IF "confidence" \in DOMAIN wave THEN wave.confidence ELSE default

IsComplete(wave) ==
    IF wave.type = "Impulse" THEN Has(wave, ImpulseLabels)
    ELSE Has(wave, CorrectiveLabels)

\* Lines 954-955 and 970-973: the index of the last leg of a forming wave;
\* for an impulse the leg with the largest digit label, for a corrective
\* the last of 0, A, B, C that is present.
LastLegIdx(wave) ==
    LET order == IF wave.type = "Impulse"
                 THEN <<"0", "1", "2", "3", "4", "5">>
                 ELSE <<"0", "A", "B", "C">>
        present == {k \in 1..Len(order) : order[k] \in DOMAIN wave.legs}
        lastk == CHOOSE k \in present : \A j \in present : j <= k
    IN  wave.legs[order[lastk]].idx

EndIdx(wave) == IF wave.type = "Impulse" THEN wave.legs["5"].idx ELSE wave.legs["C"].idx

\* Lines 930-976: one pass over the collection in insertion order.  The
\* scan state holds the position of the latest completed and of the latest
\* forming wave found so far (0 when none).
RECURSIVE ScanWaves(_, _, _)
ScanWaves(ws, k, st) ==
    IF k > Len(ws) THEN st
    ELSE LET wave == ws[k]
             conf == ConfidenceOr(wave, 50)
         IN  IF IsComplete(wave)
             THEN IF EndIdx(wave) > st.completed_end /\ conf >= st.highest_confidence
                  THEN ScanWaves(ws, k + 1,
                           [st EXCEPT !.completed = k,
                                      !.completed_end = EndIdx(wave),
                                      !.highest_confidence = conf])
                  ELSE ScanWaves(ws, k + 1, st)
             ELSE IF DOMAIN wave.legs # {} /\ LastLegIdx(wave) > st.forming_last
                  THEN ScanWaves(ws, k + 1,
                           [st EXCEPT !.forming = k, !.forming_last = LastLegIdx(wave)])
                  ELSE ScanWaves(ws, k + 1, st)

ScanResult(ws) ==
    ScanWaves(ws, 1, [completed |-> 0, completed_end |-> 0 - 1,
                      forming |-> 0, forming_last |-> 0 - 1, highest_confidence |-> 0])

\* Lines 979-986: the position of the selected wave in the collection, 0
\* when no wave is selected.
SelectedWave(ws) ==
    LET st == ScanResult(ws)
    IN  IF st.forming # 0 /\ st.forming_last > st.completed_end - 5
        THEN st.forming
        ELSE st.completed

\* The correction targets without the 23.6% and 78.6% levels.
CorrectionTargetsInner(wave, up) ==
    LET p5 == Price(wave, "5")
        p0 == Price(wave, "0")
        rng == IF up THEN p5 - p0 ELSE Abs(p0 - p5)
        sign == IF up THEN 0 - 1 ELSE 1
        at(r) == 1000 * p5 + sign * rng * r
    IN  <<at(382), at(500), at(618)>>

\* Lines 1013-1020 and 1032-1039: the correction targets, in thousandths.
CorrectionTargets(wave, up) ==
    LET p5 == Price(wave, "5")
        p0 == Price(wave, "0")
        rng == IF up THEN p5 - p0 ELSE Abs(p0 - p5)
        sign == IF up THEN 0 - 1 ELSE 1
        at(r) == 1000 * p5 + sign * rng * r
    IN  <<at(236), at(382), at(500), at(618), at(786)>>

\* Lines 998-1149: the state for the selected wave.  The local wave_status
\* of lines 980-984 is never stored in the result.
StateFor(wave) ==
    LET up == (IF "direction" \in DOMAIN wave THEN wave.direction ELSE "up") = "up"
        has(l) == l \in DOMAIN wave.legs
        set(cur, next, pos, conf, phase, confirmed, targets, progress) ==
            [current_wave |-> cur, next_wave |-> next, position |-> pos,
             confidence |-> conf, wave_status |-> "completed",
             correction_phase |-> phase, trend_confirmed |-> confirmed,
             entry_signal |-> confirmed, correction_targets |-> targets,
             correction_progress |-> progress]
    IN  IF wave.type = "Impulse"
        THEN IF has("5")
             THEN set("5", "A", IF up THEN Position1005 ELSE Position1024, 95, TRUE, FALSE,
                      IF has("0") THEN CorrectionTargets(wave, up) ELSE <<>>, 0)
             ELSE IF has("4")
             THEN set("4", "5", IF up THEN Position1044 ELSE Position1052, 100, FALSE, TRUE,
                      <<>>, 0)
             ELSE IF has("2")
             THEN set("2", "3", IF up THEN Position1061 ELSE Position1069, 100, FALSE, TRUE,
                      <<>>, 0)
             ELSE set("0/1", "1/2", IF up THEN Position1083 ELSE Position1085, 70, FALSE,
                      FALSE, <<>>, 0)
        ELSE IF has("C")
             THEN set("C", "1", IF up THEN Position1093 ELSE Position1101, 100, FALSE, TRUE,
                      <<>>, 0)
             ELSE IF has("B")
             THEN set("B", "C", IF up THEN Position1117 ELSE Position1119, 80, TRUE, FALSE,
                      <<>>, 67)
             ELSE IF has("A")
             THEN set("A", "B", IF up THEN Position1131 ELSE Position1133, 70, TRUE, FALSE,
                      <<>>, 33)
             ELSE set("0", "A", IF up THEN Position1145 ELSE Position1147, 60, TRUE, FALSE,
                      <<>>, 0)

\* determine_current_wave giving the entry signal as soon as leg B of a
\* correction is in place.
determine_entry_after_B(ws) ==
    IF Len(ws) = 0 \/ SelectedWave(ws) = 0 THEN DefaultState
    ELSE [StateFor(ws[SelectedWave(ws)]) EXCEPT
              !.entry_signal = @ \/ "B" \in DOMAIN ws[SelectedWave(ws)].legs]

\* The state of the first wave of the collection, whichever is selected.
determine_state_of_first(ws) ==
    IF Len(ws) = 0 \/ SelectedWave(ws) = 0 THEN DefaultState
    ELSE StateFor(ws[1])

determine_current_wave(ws) ==
    IF Len(ws) = 0 \/ SelectedWave(ws) = 0 THEN DefaultState
    ELSE StateFor(ws[SelectedWave(ws)])

(***************************************************************************)
(* identify_wave_patterns, lines 1151-1244: the names of the patterns      *)
(* found.  It is called on collections whose waves are complete.           *)
(***************************************************************************)
\* |dp / di| as numpy computes it: a zero di gives inf, or nan when dp is
\* zero too.
AbsSlope(wave, from, to) ==
    [num |-> Abs(wave.legs[to].price - wave.legs[from].price),
     den |-> Abs(wave.legs[to].idx - wave.legs[from].idx)]

\* x > y for two such quotients.
SlopeGt(x, y) ==
    LET nan(q) == q.den = 0 /\ q.num = 0
        inf(q) == q.den = 0 /\ q.num # 0
    IN  IF nan(x) \/ nan(y) THEN FALSE
        ELSE IF inf(x) THEN ~ inf(y)
        ELSE IF inf(y) THEN FALSE
        ELSE x.num * y.den > y.num * x.den

\* abs(a - b) / a < 0.05.
Within5Percent(a, b) ==
    IF a > 0 THEN 20 * Abs(a - b) < a
    ELSE IF a < 0 THEN TRUE
    ELSE FALSE

identify_wave_patterns(ws) ==
    LET impulses == {k \in 1..Len(ws) : ws[k].type = "Impulse"}
        correctives == {k \in 1..Len(ws) : ws[k].type = "Corrective"}
        cycle == \E i \in impulses, c \in correctives :
                    /\ ws[i].legs["5"].idx = ws[c].legs["0"].idx
                    /\ ws[i].direction # ws[c].direction
        triangle == \E c \in correctives :
                       /\ Has(ws[c], {"A", "B", "C"})
                       /\ LET a == Abs(Price(ws[c], "A") - Price(ws[c], "0"))
                              b == Abs(Price(ws[c], "B") - Price(ws[c], "A"))
                              cc == Abs(Price(ws[c], "C") - Price(ws[c], "B"))
                          IN  a > b /\ b > cc
        wedge == \E i \in impulses :
                    /\ Has(ws[i], {"1", "2", "3", "4", "5"})
                    /\ SlopeGt(AbsSlope(ws[i], "0", "1"), AbsSlope(ws[i], "2", "3"))
                    /\ SlopeGt(AbsSlope(ws[i], "2", "3"), AbsSlope(ws[i], "4", "5"))
                    /\ SlopeGt(AbsSlope(ws[i], "1", "2"), AbsSlope(ws[i], "3", "4"))
        rectangle == \E c \in correctives :
                        /\ Has(ws[c], {"A", "B", "C"})
                        /\ Within5Percent(Price(ws[c], "0"), Price(ws[c], "B"))
                        /\ Within5Percent(Price(ws[c], "A"), Price(ws[c], "C"))
    IN  (IF cycle THEN {"elliott_cycle"} ELSE {})
        \cup (IF triangle THEN {"symmetric_triangle"} ELSE {})
        \cup (IF wedge THEN {"wedge"} ELSE {})
        \cup (IF rectangle THEN {"rectangle"} ELSE {})

(***************************************************************************)
(* generate_trading_signals, lines 1246-1410.  Money values are in         *)
(* thousandths.  The data frame holds the Close column only, so the RSI    *)
(* and MACD confirmations of lines 1386-1400 are skipped.                  *)
(***************************************************************************)
EmptyDict == <<>>

\* Lines 1278-1291.
TrendOf(cw) ==
    IF cw.trend_confirmed
    THEN IF Contains(cw.position, Saeida) \/ Contains(cw.position, Shira)
         THEN TrendUpConfirmed
         ELSE IF Contains(cw.position, Habita) \/ Contains(cw.position, Bay)
         THEN TrendDownConfirmed
         ELSE UnknownText
    ELSE IF cw.correction_phase
    THEN IF Contains(cw.position, Saeida) \/ Contains(cw.position, Suudi)
         THEN TrendCorrectionUp
         ELSE IF Contains(cw.position, Habita) \/ Contains(cw.position, Hubuti)
         THEN TrendCorrectionDown
         ELSE UnknownText
    ELSE UnknownText

\* Lines 1301-1307: the note on the correction phase.
PhaseNotes(cw, current_price) ==
    IF ~ cw.correction_phase THEN <<>>
    ELSE LET t == cw.correction_targets
             dist(k) == Abs(t[k] - 1000 * current_price)
             nearest == CHOOSE k \in 1..Len(t) :
                           /\ \A j \in 1..Len(t) : dist(k) <= dist(j)
                           /\ \A j \in 1..(k - 1) : dist(k) < dist(j)
             index == CHOOSE k \in 1..Len(t) :
                         t[k] = t[nearest] /\ \A j \in 1..(k - 1) : t[j] # t[nearest]
         IN  <<"correction phase", ToString(cw.correction_progress)>>
             \o (IF Len(t) > 0
                 THEN <<"nearest target", ToString(t[nearest]),
                        <<"23.6%", "38.2%", "50%", "61.8%", "78.6%">>[index],
                        "wait for the correction to complete">>
                 ELSE <<>>)

\* Lines 1315-1321: the Buy stop loss.
BuyStop(ws, current_price) ==
    LET lows == {Price(ws[k], "0") :
                   k \in {k \in 1..Len(ws) : /\ ws[k].type = "Corrective"
                                              /\ ws[k].direction = "up"
                                              /\ "0" \in DOMAIN ws[k].legs}}
        m == CHOOSE v \in lows \cup {current_price} :
                \A u \in lows \cup {current_price} : v <= u
    IN  980 * m

\* The Buy take profit with the size of wave 1 taken as in the Sell branch
\* (leg 0 minus leg 1).
BuyTargetSwapped(ws, current_price) ==
    LET projections == {1000 * current_price
                          + 1618 * (Price(ws[k], "0") - Price(ws[k], "1")) :
                        k \in {k \in 1..Len(ws) : /\ ws[k].type = "Impulse"
                                                   /\ ws[k].direction = "up"
                                                   /\ Has(ws[k], {"3", "1"})}}
        all == projections \cup {1200 * current_price}
    IN  CHOOSE v \in all : \A u \in all : v <= u

\* Lines 1324-1333: the Buy take profit.
BuyTarget(ws, current_price) ==
    LET projections == {1000 * current_price
                          + 1618 * (Price(ws[k], "1") - Price(ws[k], "0")) :
                        k \in {k \in 1..Len(ws) : /\ ws[k].type = "Impulse"
                                                   /\ ws[k].direction = "up"
                                                   /\ Has(ws[k], {"3", "1"})}}
        all == projections \cup {1200 * current_price}
    IN  CHOOSE v \in all : \A u \in all : v <= u

\* Lines 1340-1346: the Sell stop loss.
SellStop(ws, current_price) ==
    LET highs == {Price(ws[k], "0") :
                    k \in {k \in 1..Len(ws) : /\ ws[k].type = "Corrective"
                                               /\ ws[k].direction = "down"
                                               /\ "0" \in DOMAIN ws[k].legs}}
        m == CHOOSE v \in highs \cup {current_price} :
                \A u \in highs \cup {current_price} : v >= u
    IN  1020 * m

\* Lines 1349-1358: the Sell take profit.
SellTarget(ws, current_price) ==
    LET projections == {1000 * current_price
                          - 1618 * (Price(ws[k], "0") - Price(ws[k], "1")) :
                        k \in {k \in 1..Len(ws) : /\ ws[k].type = "Impulse"
                                                   /\ ws[k].direction = "down"
                                                   /\ Has(ws[k], {"3", "1"})}}
        all == projections \cup {800 * current_price}
    IN  CHOOSE v \in all : \A u \in all : v >= u

\* generate_trading_signals leaving stop_loss and take_profit at their initial
\* 0 in the last branch.
generate_trading_signals_unset(close, ws, cw) ==
    IF Len(ws) = 0 THEN EmptyDict
    ELSE LET current_price == close[Len(close)]
             trend == TrendOf(cw)
             signal(direction, stop_loss, take_profit, notes) ==
                 [direction |-> direction, entry |-> 1000 * current_price,
                  stop_loss |-> stop_loss, take_profit |-> take_profit,
                  trend |-> trend, confidence |-> cw.confidence, notes |-> notes]
         IN  IF cw.trend_confirmed /\ cw.entry_signal
             THEN IF Contains(trend, Saeid)
                  THEN signal("buy", BuyStop(ws, current_price),
                              BuyTarget(ws, current_price), <<"confirmed buy">>)
                  ELSE IF Contains(trend, Habit)
                  THEN signal("sell", SellStop(ws, current_price),
                              SellTarget(ws, current_price), <<"confirmed sell">>)
                  ELSE signal("neutral", 0, 0, PhaseNotes(cw, current_price))
             ELSE IF Contains(trend, Tashih)
             THEN signal("neutral", 900 * current_price, 1100 * current_price,
                         <<"market in correction, wait">>)
             ELSE signal("neutral", 0, 0, <<"no clear signal, wait">>)

\* Lines 1265-1410.
generate_trading_signals(close, ws, cw) ==
    IF Len(ws) = 0 THEN EmptyDict
    ELSE LET current_price == close[Len(close)]
             trend == TrendOf(cw)
             signal(direction, stop_loss, take_profit, notes) ==
                 [direction |-> direction, entry |-> 1000 * current_price,
                  stop_loss |-> stop_loss, take_profit |-> take_profit,
                  trend |-> trend, confidence |-> cw.confidence, notes |-> notes]
         IN  IF cw.trend_confirmed /\ cw.entry_signal
             THEN IF Contains(trend, Saeid)
                  THEN signal("buy", BuyStop(ws, current_price),
                              BuyTarget(ws, current_price), <<"confirmed buy">>)
                  ELSE IF Contains(trend, Habit)
                  THEN signal("sell", SellStop(ws, current_price),
                              SellTarget(ws, current_price), <<"confirmed sell">>)
                  ELSE signal("neutral", 0, 0, PhaseNotes(cw, current_price))
             ELSE IF Contains(trend, Tashih)
             THEN signal("neutral", 900 * current_price, 1100 * current_price,
                         <<"market in correction, wait">>)
             ELSE signal("neutral", 900 * current_price, 1100 * current_price,
                         <<"no clear signal, wait">>)

(***************************************************************************)
(* identify_elliott_waves, lines 7-53, one action per step of the call.    *)
(* pc names the last step completed.                                       *)
(***************************************************************************)
ErrorResult == [error |-> "insufficient data"]

\* Lines 24-25.
Reject ==
    /\ pc = "start"
    /\ Len(data) < MinLen
    /\ result' = Some(ErrorResult)
    /\ pc' = "done"
    /\ UNCHANGED <<data, sensitivity, peaks, valleys, waves, current_wave,
                   patterns, trading_signals, ret>>

\* find_pivot_points reached one point early: the length test of line 24
\* taken as len(data) < 49.
FindPivotsFrom49 ==
    /\ pc = "start"
    /\ Len(data) >= MinLen - 1
    /\ \E out \in find_pivot_points(data, sensitivity) :
          /\ data' = out.prices
          /\ peaks' = Some(out.peaks)
          /\ valleys' = Some(out.valleys)
    /\ pc' = "pivots"
    /\ UNCHANGED <<sensitivity, waves, current_wave, patterns, trading_signals,
                   result, ret>>

\* Lines 28-31.  prices is data['Close'].values, the array of the caller's
\* column, so the NaN entries find_pivot_points overwrites are overwritten
\* in data.
FindPivots ==
    /\ pc = "start"
    /\ Len(data) >= MinLen
    /\ \E out \in find_pivot_points(data, sensitivity) :
          /\ data' = out.prices
          /\ peaks' = Some(out.peaks)
          /\ valleys' = Some(out.valleys)
    /\ pc' = "pivots"
    /\ UNCHANGED <<sensitivity, waves, current_wave, patterns, trading_signals,
                   result, ret>>

\* Line 34.
AnalyzeWaves ==
    /\ pc = "pivots"
    /\ waves' = Some(analyze_wave_structure(data, Val(peaks), Val(valleys)))
    /\ pc' = "waves"
    /\ UNCHANGED <<data, sensitivity, peaks, valleys, current_wave, patterns,
                   trading_signals, result, ret>>

\* Line 37.
DetermineCurrentWave ==
    /\ pc = "waves"
    /\ current_wave' = Some(determine_current_wave(Val(waves)))
    /\ pc' = "current"
    /\ UNCHANGED <<data, sensitivity, peaks, valleys, waves, patterns,
                   trading_signals, result, ret>>

\* Line 40.
IdentifyPatterns ==
    /\ pc = "current"
    /\ patterns' = Some(identify_wave_patterns(Val(waves)))
    /\ pc' = "patterns"
    /\ UNCHANGED <<data, sensitivity, peaks, valleys, waves, current_wave,
                   trading_signals, result, ret>>

\* Line 41 (and the direct call of generate_trading_signals after
\* determine_current_wave, when from is "current").
GenerateSignalsAfter(from) ==
    /\ pc = from
    /\ trading_signals' = Some(generate_trading_signals(data, Val(waves), Val(current_wave)))
    /\ pc' = "signals"
    /\ UNCHANGED <<data, sensitivity, peaks, valleys, waves, current_wave,
                   patterns, result, ret>>

GenerateSignals == GenerateSignalsAfter("patterns")

\* Lines 44-53.
Return ==
    /\ pc = "signals"
    /\ result' = Some([waves |-> Val(waves), current_wave |-> Val(current_wave),
                       patterns |-> Val(patterns),
                       trading_signals |-> Val(trading_signals),
                       peaks_idx |-> Val(peaks), valleys_idx |-> Val(valleys)])
    /\ pc' = "done"
    /\ UNCHANGED <<data, sensitivity, peaks, valleys, waves, current_wave,
                   patterns, trading_signals, ret>>

(***************************************************************************)
(* The price series given to identify_elliott_waves.                       *)
(***************************************************************************)
Lengths == {MinLen - 1, MinLen, MinLen + MaxExtra}
Slopes == {0 - 1, 0, 1}
Sensitivities == {5, 9}

\* A straight line through Base: rising, flat or falling.
Linear(n, slope) == [k \in 1..n |-> Base + slope * (k - 1)]

\* A single reversal at index apex: a tent (sign 1) or a vee (sign -1).
Tent(n, apex, sign) == [k \in 1..n |-> Base + sign * (apex - Abs(k - 1 - apex))]

\* A triangular oscillation of half period h and amplitude amp * h around
\* a line of the given slope.
Zigzag(n, h, amp, slope) ==
    [k \in 1..n |->
        LET r == (k - 1) % (2 * h)
        IN  Base + slope * (k - 1) + amp * (IF r <= h THEN r ELSE 2 * h - r)]

\* Flat-topped rises from 50, one per entry of tops, 15 points each: four
\* points at 50, seven at the top, four at 50.
Bumps(tops) ==
    [k \in 1..(15 * Len(tops)) |->
        LET r == (k - 1) % 15
        IN  IF 4 <= r /\ r <= 10 THEN tops[(k - 1) \div 15 + 1] ELSE 50]

\* Three rises to 100 and one to 80, which is 0.8 times their median.
CraftedBumps == Bumps(<<100, 100, 100, 80>>)

\* A staircase of 50 points that never falls: level 100, a ramp over the
\* indices 10..14, level 104, a ramp over 20..24, level 108.
CraftedStairs ==
    [k \in 1..50 |->
        LET i == k - 1
        IN  IF i < 10 THEN 100
            ELSE IF i < 15 THEN 100 + (i - 10)
            ELSE IF i < 20 THEN 104
            ELSE IF i < 25 THEN 104 + (i - 20)
            ELSE 108]

\* 50 points that end where they start: level 100, a ramp over the
\* indices 10..14, level 104 up to index 48, and 100 at the last index.
CraftedPlateau ==
    [k \in 1..50 |->
        LET i == k - 1
        IN  IF i < 10 \/ i = 49 THEN 100
            ELSE IF i < 15 THEN 100 + (i - 10)
            ELSE 104]

WithNaN(series, i) == [series EXCEPT ![i + 1] = NaN]

CleanSeries ==
    {Linear(n, sl) : n \in Lengths, sl \in Slopes}
    \cup {Tent(n, n \div 2, sg) : n \in Lengths, sg \in {0 - 1, 1}}
    \cup {Zigzag(n, h, amp, sl) : n \in Lengths, h \in 3..MaxHalf,
                                  amp \in 1..MaxAmp, sl \in Slopes}
    \cup {CraftedBumps, CraftedStairs, CraftedPlateau}

InputSeries ==
    CleanSeries
    \cup UNION {{WithNaN(Linear(n, sl), i) : i \in {0, n \div 2, n - 1}} :
                   n \in Lengths, sl \in Slopes}
    \cup {None}

Init ==
    /\ pc = "start"
    /\ data \in InputSeries
    /\ sensitivity \in Sensitivities
    /\ peaks = None
    /\ valleys = None
    /\ waves = None
    /\ current_wave = None
    /\ patterns = None
    /\ trading_signals = None
    /\ result = None
    /\ ret = None

Next ==
    \/ Reject
    \/ FindPivots
    \/ AnalyzeWaves
    \/ DetermineCurrentWave
    \/ IdentifyPatterns
    \/ GenerateSignals
    \/ Return

Spec == Init /\ [][Next]_vars

(***************************************************************************)
(* Properties of identify_elliott_waves (specification Spec).              *)
(***************************************************************************)
Returned == pc = "done"

StrictlyIncreasing(series) ==
    \A k \in 1..(Len(series) - 1) : series[k] < series[k + 1]

\* C1: for every strictly increasing series of at least 50 points,
\* identify_elliott_waves returns no error and a wave collection that is
\* exactly the one synthetic impulse wave of the alternative builder, with
\* direction "up" and confidence 0.9.
C1_MonotoneGivesSyntheticImpulse ==
    (Returned /\ Len(data) >= MinLen /\ StrictlyIncreasing(data)) =>
        /\ "error" \notin DOMAIN Val(result)
        /\ Val(result).waves = create_alternative_wave_structure(data)
        /\ Len(Val(result).waves) = 1
        /\ Val(result).waves[1].type = "Impulse"
        /\ Val(result).waves[1].direction = "up"
        /\ Val(result).waves[1].confidence = 90

\* Consecutive pivots of one kind (the sorted array same) always have a
\* pivot of the other kind at an index between them, ends included.
Separated(same, other) ==
    \A k \in 1..(Len(same) - 1) :
        \E j \in 1..Len(other) : same[k] <= other[j] /\ other[j] <= same[k + 1]

\* C2: on every return path of find_pivot_points, the returned peaks and
\* valleys merged in index order alternate in kind: no two consecutive
\* pivots are both peaks or both valleys.
C2_PivotsAlternate ==
    pc = "pivots" =>
        /\ Separated(NpSort(Val(peaks)), NpSort(Val(valleys)))
        /\ Separated(NpSort(Val(valleys)), NpSort(Val(peaks)))

SignalFields ==
    {"direction", "entry", "stop_loss", "take_profit", "trend", "confidence", "notes"}

\* C5: for every series of at least 50 points, identify_elliott_waves
\* returns a result without an error entry whose trading signal record has
\* all of direction, entry, stop_loss, take_profit, trend, confidence, notes.
C5_SignalAlwaysWellFormed ==
    (Returned /\ Len(data) >= MinLen) =>
        /\ "error" \notin DOMAIN Val(result)
        /\ SignalFields \subseteq DOMAIN Val(result).trading_signals

\* C6: with fewer than 50 points (or no data) identify_elliott_waves
\* returns a result whose only entry is the error tag, and no pivot
\* extraction, wave building, state derivation or signal generation is done.
C6_InsufficientDataOnlyError ==
    Len(data) < MinLen =>
        /\ pc \in {"start", "done"}
        /\ peaks = None /\ valleys = None /\ waves = None
        /\ current_wave = None /\ patterns = None /\ trading_signals = None
        /\ (Returned => result # None /\ DOMAIN Val(result) = {"error"})

C6_Witness ==
    /\ Returned
    /\ Len(data) = MinLen - 1
    /\ result = Some(ErrorResult)

\* The array a is in strictly ascending order.
StrictlyAscending(a) == \A k \in 1..(Len(a) - 1) : a[k] < a[k + 1]

\* C15: on every return path of find_pivot_points, the coarse fallback
\* included, the returned peaks and the returned valleys are each in
\* strictly ascending index order and no index is both a peak and a valley.
C15_PivotsOrderedAndDisjoint ==
    pc = "pivots" =>
        /\ StrictlyAscending(Val(peaks))
        /\ StrictlyAscending(Val(valleys))
        /\ Range(Val(peaks)) \cap Range(Val(valleys)) = {}

\* C16: determine_current_wave called with an empty wave collection
\* returns the unknown state: current_wave and next_wave unknown,
\* confidence 0.9, correction_phase, trend_confirmed and entry_signal
\* false, no correction targets and correction_progress 0.
C16_EmptyCollectionGivesUnknownState ==
    (current_wave # None /\ Val(waves) = <<>>) =>
        /\ Val(current_wave).current_wave = "unknown"
        /\ Val(current_wave).next_wave = "unknown"
        /\ Val(current_wave).confidence = 90
        /\ ~ Val(current_wave).correction_phase
        /\ ~ Val(current_wave).trend_confirmed
        /\ ~ Val(current_wave).entry_signal
        /\ Val(current_wave).correction_targets = <<>>
        /\ Val(current_wave).correction_progress = 0

\* determine_current_wave has been called on the empty collection built
\* for a falling line.
C16_Witness ==
    /\ pc = "current"
    /\ Val(waves) = <<>>
    /\ Len(data) = MinLen
    /\ data[1] > data[MinLen]
    /\ Val(current_wave).position = UnknownText

\* C18: identify_elliott_waves has no side effect on its input: at every
\* step of the call the caller's price series, its missing (NaN) entries
\* included, stays what it was before the call.
C18_InputUnchanged == [][data' = data]_vars

\* The smoothed series of lines 85-88 and the index sets the two calls of
\* find_peaks (lines 105-118) can return for the series of the call.
SmoothedPrices == Smooth(data, sensitivity)

DetectedPeaks ==
    FindPeaks(SmoothedPrices, PeakDistance(sensitivity), data, sensitivity,
              PeakWidth(sensitivity))

DetectedValleys ==
    FindPeaks(Negate(SmoothedPrices), PeakDistance(sensitivity), data, sensitivity,
              PeakWidth(sensitivity))

\* The pivots of P whose importance is at least 0.8 times the median
\* importance of P.
AtOrAboveScaledMedian(sign, P) ==
    {p \in P : 5 * sign * At(SmoothedPrices, p) >= 2 * Median2(SmoothedPrices, sign, P)}

\* C22: when more than 3 peaks (valleys) are detected, a peak (valley) is
\* kept if and only if its importance, the smoothed price of a peak and
\* the negative smoothed price of a valley, is greater than or equal to
\* 0.8 times the median importance of its kind.
C22_KeptIffAtOrAboveScaledMedian ==
    pc = "pivots" =>
        /\ \A P0 \in DetectedPeaks :
              Cardinality(P0) > 3 =>
                  ImportanceFilter(SmoothedPrices, 1, P0) = AtOrAboveScaledMedian(1, P0)
        /\ \A V0 \in DetectedValleys :
              Cardinality(V0) > 3 =>
                  ImportanceFilter(SmoothedPrices, 0 - 1, V0) = AtOrAboveScaledMedian(0 - 1, V0)

\* C23: for a series of positive prices the importance filter never
\* removes all pivots of a kind: whenever more than 3 peaks (valleys) were
\* detected, at least one peak (valley) remains after filtering.
C23_FilterKeepsOnePivot ==
    (pc = "pivots" /\ \A k \in 1..Len(data) : data[k] > 0) =>
        /\ \A P0 \in DetectedPeaks :
              Cardinality(P0) > 3 => ImportanceFilter(SmoothedPrices, 1, P0) # {}
        /\ \A V0 \in DetectedValleys :
              Cardinality(V0) > 3 => ImportanceFilter(SmoothedPrices, 0 - 1, V0) # {}

(***************************************************************************)
(* The validators called directly (specification SpecFib).  The wave under *)
(* test is the one wave of the collection waves; ret holds the answer.     *)
(***************************************************************************)
\* A wave whose legs, in label order, have the prices pr and the indices
\* idx0, idx0 + 1, ...; direction "" stands for a wave without direction.
MakeWave(type, labels, pr, idx0, direction) ==
    LET legs == [l \in Range(labels) |->
                    LET k == CHOOSE j \in 1..Len(labels) : labels[j] = l
                    IN  [idx |-> idx0 + k - 1, price |-> pr[k]]]
        wave == [type |-> type, ord |-> 0, legs |-> legs]
    IN  IF direction = "" THEN wave ELSE [direction |-> direction] @@ wave

\* An impulse wave from its leg lengths: a = |1 - 0|, b = |2 - 1|,
\* c = |3 - 2|, d = |4 - 3| (negative for a leg against its direction).
ImpulseFromLegs(a, b, c, d, direction) ==
    LET sg == IF direction = "down" THEN 0 - 1 ELSE 1
    IN  MakeWave("Impulse", <<"0", "1", "2", "3", "4", "5">>,
                 <<Base, Base + sg * a, Base + sg * (a - b), Base + sg * (a - b + c),
                   Base + sg * (a - b + c - d), Base + sg * (a - b + c - d + 1)>>,
                 0, direction)

\* A corrective wave from its leg lengths: a = |A - 0|, b = |B - A|,
\* c = |C - B|; a Down corrective falls, rises, falls.
CorrectiveFromLegs(a, b, c, direction) ==
    LET sg == IF direction = "up" THEN 1 ELSE 0 - 1
    IN  MakeWave("Corrective", <<"0", "A", "B", "C">>,
                 <<Base, Base + sg * a, Base + sg * (a - b), Base + sg * (a - b + c)>>,
                 0, direction)

\* The wave without its legs after the leg labelled last.
Truncate(wave, labels, last) ==
    LET n == CHOOSE j \in 1..Len(labels) : labels[j] = last
    IN  [wave EXCEPT !.legs = [l \in {labels[j] : j \in 1..n} |-> wave.legs[l]]]

LegLengths == (0 - 1)..MaxLeg

\* The waves given to the validators: all impulse and corrective waves
\* with leg lengths up to MaxLeg, and waves without direction or without
\* their last legs.
OddWaves ==
    {ImpulseFromLegs(MaxLeg, b, MaxLeg, 1, "") : b \in 1..MaxLeg}
    \cup {CorrectiveFromLegs(MaxLeg, b, MaxLeg, "") : b \in 1..MaxLeg}
    \cup {Truncate(ImpulseFromLegs(MaxLeg, b, MaxLeg, 1, dir),
                   <<"0", "1", "2", "3", "4", "5">>, "4") :
              b \in 1..MaxLeg, dir \in {"up", "down"}}
    \cup {Truncate(CorrectiveFromLegs(MaxLeg, b, MaxLeg, dir),
                   <<"0", "A", "B", "C">>, "B") :
              b \in 1..MaxLeg, dir \in {"up", "down"}}

InitFib ==
    /\ pc = "wave"
    /\ \/ \E a \in LegLengths, b \in LegLengths, c \in 0..MaxLeg, d \in 0..MaxLeg,
             dir \in {"up", "down"} :
             waves = Some(<<ImpulseFromLegs(a, b, c, d, dir)>>)
       \/ \E a \in LegLengths, b \in LegLengths, c \in LegLengths,
             dir \in {"up", "down"} :
             waves = Some(<<CorrectiveFromLegs(a, b, c, dir)>>)
       \/ \E w \in OddWaves : waves = Some(<<w>>)
    /\ data = None
    /\ sensitivity = 5
    /\ peaks = None
    /\ valleys = None
    /\ current_wave = None
    /\ patterns = None
    /\ trading_signals = None
    /\ result = None
    /\ ret = None

\* A call of _verify_impulse_wave_fibonacci (line 295).
VerifyImpulse ==
    /\ pc = "wave"
    /\ ret' = Some(verify_impulse_wave_fibonacci(Val(waves)[1]))
    /\ pc' = "verified_impulse"
    /\ UNCHANGED <<data, sensitivity, peaks, valleys, waves, current_wave,
                   patterns, trading_signals, result>>

\* A call of _verify_corrective_wave_fibonacci (line 310).
VerifyCorrective ==
    /\ pc = "wave"
    /\ ret' = Some(verify_corrective_wave_fibonacci(Val(waves)[1]))
    /\ pc' = "verified_corrective"
    /\ UNCHANGED <<data, sensitivity, peaks, valleys, waves, current_wave,
                   patterns, trading_signals, result>>

NextFib ==
    \/ VerifyImpulse
    \/ VerifyCorrective

SpecFib == InitFib /\ [][NextFib]_vars

TestedWave == Val(waves)[1]

\* The rules of the impulse validation for an Up wave; a Down wave is held
\* to them with every price negated.
ImpulseRules(p0, p1, p2, p3, p4) ==
    /\ p2 >= p0
    /\ 10 * (p3 - p2) >= 9 * (p1 - p0)
    /\ p4 > p1
    /\ p1 # p0
    /\ IF p1 > p0
       THEN 236 * (p1 - p0) <= 1000 * (p1 - p2) /\ 1000 * (p1 - p2) <= 886 * (p1 - p0)
       ELSE 236 * (p1 - p0) >= 1000 * (p1 - p2) /\ 1000 * (p1 - p2) >= 886 * (p1 - p0)

ImpulseRulesHold(wave) ==
    /\ ImpulseLabels \subseteq DOMAIN wave.legs
    /\ "direction" \in DOMAIN wave
    /\ wave.direction \in {"up", "down"}
    /\ LET sg == IF wave.direction = "up" THEN 1 ELSE 0 - 1
           p(l) == sg * wave.legs[l].price
       IN  ImpulseRules(p("0"), p("1"), p("2"), p("3"), p("4"))

\* C7: _verify_impulse_wave_fibonacci returns true exactly for the complete
\* Up or Down impulse waves in which leg 2 does not go beyond leg 0, leg 3
\* is at least 0.9 times as long as leg 1, leg 4 is strictly outside leg
\* 1's zone and the leg 1 -> leg 2 retracement ratio is in [0.236, 0.886];
\* it returns false for every other wave, incomplete or directionless ones
\* included.
C7_ImpulseValidationIffRules ==
    pc = "verified_impulse" => (Val(ret) = ImpulseRulesHold(TestedWave))

\* An accepted wave whose leg 3 is shorter than leg 1, and a rejected
\* incomplete wave, are both among the answers.
C7_Witness ==
    /\ pc = "verified_impulse"
    /\ Val(ret) = TRUE
    /\ TestedWave.direction = "down"
    /\ Abs(Price(TestedWave, "3") - Price(TestedWave, "2"))
          < Abs(Price(TestedWave, "1") - Price(TestedWave, "0"))

\* C8: every corrective wave _verify_corrective_wave_fibonacci accepts has
\* |B - A| / |A - 0| in [0.236, 0.886], |C - B| / |A - 0| in
\* [0.618, 2.618], and a leg B that does not pass leg 0's price.
C8_AcceptedCorrectiveRatios ==
    (pc = "verified_corrective" /\ Val(ret) = TRUE) =>
        LET p0 == Price(TestedWave, "0")
            pA == Price(TestedWave, "A")
            pB == Price(TestedWave, "B")
            pC == Price(TestedWave, "C")
            a == Abs(pA - p0)
            b == Abs(pB - pA)
            c == Abs(pC - pB)
        IN  /\ a > 0
            /\ 236 * a <= 1000 * b /\ 1000 * b <= 886 * a
            /\ 618 * a <= 1000 * c /\ 1000 * c <= 2618 * a
            /\ TestedWave.direction = "down" => pB <= p0
            /\ TestedWave.direction = "up" => pB >= p0

C8_Witness ==
    /\ pc = "verified_corrective"
    /\ Val(ret) = TRUE
    /\ TestedWave.direction = "up"
    /\ Price(TestedWave, "C") > Price(TestedWave, "A")

\* C17: given a complete impulse wave whose leg 1 price equals its leg 0
\* price, _verify_impulse_wave_fibonacci returns false without evaluating a
\* division by zero; and so does _verify_corrective_wave_fibonacci given a
\* wave whose leg A price equals its leg 0 price.
C17_ZeroLegRejectedWithoutDivision ==
    /\ (/\ pc = "verified_impulse"
        /\ ImpulseLabels \subseteq DOMAIN TestedWave.legs
        /\ Price(TestedWave, "1") = Price(TestedWave, "0")) =>
            /\ Val(ret) = FALSE
            /\ 0 \notin Range(impulse_divisors(TestedWave))
    /\ (/\ pc = "verified_corrective"
        /\ CorrectiveLabels \subseteq DOMAIN TestedWave.legs
        /\ Price(TestedWave, "A") = Price(TestedWave, "0")) =>
            /\ Val(ret) = FALSE
            /\ 0 \notin Range(corrective_divisors(TestedWave))

(***************************************************************************)
(* analyze_wave_structure, the two searches, and the steps that follow     *)
(* analyze_wave_structure, on pivot sequences built directly               *)
(* (specification SpecBuild).  The price array holds one price per pivot:  *)
(* its indices are alternately valleys and peaks, and every peak is above  *)
(* the valleys next to it.                                                 *)
(***************************************************************************)
Steps == {1, MaxStep, MaxStep + 2}

\* The legs of the sequence valley 100, peak 110, valley 104, peak 130,
\* valley 120, peak 140.
CraftedSteps == <<10, 6, 26, 10, 20>>

Cores == [1..5 -> Steps] \cup {CraftedSteps}

\* The legs of the sequence valley 100, peak 110, 104, 114, 112, 126, 119,
\* peak 133: an Up impulse over the first six pivots and an Up correction
\* over the pivots 112, 126, 119, 133 that ends after it.
CraftedLongSteps == <<10, 6, 10, 2, 14, 7, 14>>

Other(kind) == IF kind = "peak" THEN "valley" ELSE "peak"

\* The kind of pivot k (from 1) of a sequence that starts with first.
KindOf(first, k) == IF k % 2 = 1 THEN first ELSE Other(first)

\* The length of the leg from pivot j to pivot j + 1: lead unit legs, the
\* legs of core, then unit legs.
StepAt(lead, core, j) == IF lead < j /\ j <= lead + Len(core) THEN core[j - lead] ELSE 1

RECURSIVE WalkPrice(_, _, _, _)
WalkPrice(first, lead, core, k) ==
    IF k = 1 THEN Base
    ELSE WalkPrice(first, lead, core, k - 1)
         + (IF KindOf(first, k - 1) = "valley" THEN 1 ELSE 0 - 1) * StepAt(lead, core, k - 1)

Walk(first, lead, core, n) == [k \in 1..n |-> WalkPrice(first, lead, core, k)]

\* The ascending indices (from 0) of the pivots of one kind.
IndicesOfKind(first, kind, n) ==
    SortSet({k - 1 : k \in {j \in 1..n : KindOf(first, j) = kind}})

InitBuild ==
    /\ pc = "pivots"
    /\ \/ \E first \in {"valley", "peak"}, lead \in 0..MaxLead, core \in Cores,
             n \in 4..MaxPivots :
             /\ data = Walk(first, lead, core, n)
             /\ peaks = Some(IndicesOfKind(first, "peak", n))
             /\ valleys = Some(IndicesOfKind(first, "valley", n))
       \/ \E first \in {"valley", "peak"} :
             /\ data = Walk(first, 0, CraftedLongSteps, MaxPivots + 3)
             /\ peaks = Some(IndicesOfKind(first, "peak", MaxPivots + 3))
             /\ valleys = Some(IndicesOfKind(first, "valley", MaxPivots + 3))
    /\ sensitivity = 5
    /\ waves = None
    /\ current_wave = None
    /\ patterns = None
    /\ trading_signals = None
    /\ result = None
    /\ ret = None

\* The call of identify_impulse_waves at line 286, on the pivots that
\* lines 217-262 keep.
ImpulseSearch(prices, m) == identify_impulse_waves(prices, m.pivots, m.pivot_types)

IdentifyImpulse ==
    /\ pc = "pivots"
    /\ ret' = Some(ImpulseSearch(data, MergedPivots(data, Val(peaks), Val(valleys))))
    /\ pc' = "impulse_searched"
    /\ UNCHANGED <<data, sensitivity, peaks, valleys, waves, current_wave,
                   patterns, trading_signals, result>>

\* The call of identify_corrective_waves at line 287, on the same pivots.
CorrectiveSearch(prices, m) == identify_corrective_waves(prices, m.pivots, m.pivot_types)

IdentifyCorrective ==
    /\ pc = "pivots"
    /\ ret' = Some(CorrectiveSearch(data, MergedPivots(data, Val(peaks), Val(valleys))))
    /\ pc' = "corrective_searched"
    /\ UNCHANGED <<data, sensitivity, peaks, valleys, waves, current_wave,
                   patterns, trading_signals, result>>

\* generate_trading_signals called with the state determine_current_wave gave.
GenerateSignalsDirect == GenerateSignalsAfter("current")

NextBuild ==
    \/ AnalyzeWaves
    \/ IdentifyImpulse
    \/ IdentifyCorrective
    \/ DetermineCurrentWave
    \/ GenerateSignalsDirect

SpecBuild == InitBuild /\ [][NextBuild]_vars

\* The pivots the searches are given.
Kept == MergedPivots(data, Val(peaks), Val(valleys))

PivotPrice(k) == At(data, At(Kept.pivots, k))

\* The Up rule on six consecutive pivot prices, and its mirror image.
UpRule(w0, w1, w2, w3, w4, w5) ==
    w1 > w0 /\ w2 < w1 /\ w3 > w1 /\ w2 < w4 /\ w4 < w3 /\ w5 > w3

DownRule(w0, w1, w2, w3, w4, w5) == UpRule(0 - w0, 0 - w1, 0 - w2, 0 - w3, 0 - w4, 0 - w5)

\* The window of six pivots at offset st (from 0) is an impulse in direction dir.
WindowMatches(st, dir) ==
    /\ st + 5 < Len(Kept.pivots)
    /\ \A k \in 0..5 :
          At(Kept.pivot_types, st + k)
              = KindOf(IF dir = "up" THEN "valley" ELSE "peak", k + 1)
    /\ IF dir = "up"
       THEN UpRule(PivotPrice(st), PivotPrice(st + 1), PivotPrice(st + 2),
                   PivotPrice(st + 3), PivotPrice(st + 4), PivotPrice(st + 5))
       ELSE DownRule(PivotPrice(st), PivotPrice(st + 1), PivotPrice(st + 2),
                     PivotPrice(st + 3), PivotPrice(st + 4), PivotPrice(st + 5))

\* The candidates found, each as the index of its leg 0 and its direction.
FoundImpulses == {<<w.legs["0"].idx, w.direction>> : w \in Range(Val(ret))}

\* The windows of six consecutive pivots at the offsets of starts that are
\* impulses.
ImpulseWindows(starts) ==
    {x \in {<<st, dir>> : st \in starts, dir \in {"up", "down"}} : WindowMatches(x[1], x[2])}

AsFound(windows) == {<<At(Kept.pivots, x[1]), x[2]>> : x \in windows}

\* C3: the impulse search examines every window of six
\* consecutive pivots, and each window that has the kinds and satisfies
\* the price rule of an Up (or Down) impulse yields one candidate; so the
\* six pivots 100, 110, 104, 130, 120, 140 yield one "up" candidate.
C3_EveryWindowYieldsCandidate ==
    pc = "impulse_searched" =>
        /\ FoundImpulses = AsFound(ImpulseWindows(0..(Len(Kept.pivots) - 6)))
        /\ Len(Val(ret)) = Cardinality(FoundImpulses)

\* Lines 213, 232, 257: analyze_wave_structure leaves the work to the
\* alternative builder.
Delegates ==
    \/ Len(Val(peaks)) < 3
    \/ Len(Val(valleys)) < 3
    \/ Len(Kept.all) < 6
    \/ Len(Kept.pivots) < 5

AllCandidates ==
    identify_impulse_waves(data, Kept.pivots, Kept.pivot_types)
    \o identify_corrective_waves(data, Kept.pivots, Kept.pivot_types)

Passes(wave) ==
    IF wave.type = "Impulse" THEN verify_impulse_wave_fibonacci(wave)
    ELSE verify_corrective_wave_fibonacci(wave)

\* A returned wave without what validation adds to it.
AsCandidate(wave) ==
    [type |-> wave.type, ord |-> wave.ord, direction |-> wave.direction, legs |-> wave.legs]

\* C9: when analyze_wave_structure does not use the alternative builder,
\* it returns exactly the candidates that pass Fibonacci validation if at
\* least one passes; if none passes it returns every impulse and
\* corrective candidate unchanged, with confidence 0.85 (impulse) or 0.75
\* (corrective); so the result is non-empty whenever a candidate exists.
C9_ValidatedOrAllCandidates ==
    (pc = "waves" /\ ~ Delegates) =>
        LET passing == SelectSeq(AllCandidates, Passes)
        IN  /\ Len(passing) > 0 =>
                  [k \in 1..Len(Val(waves)) |-> AsCandidate(Val(waves)[k])] = passing
            /\ Len(passing) = 0 =>
                  Val(waves) = [k \in 1..Len(AllCandidates) |->
                                   [confidence |-> IF AllCandidates[k].type = "Impulse"
                                                   THEN 85 ELSE 75] @@ AllCandidates[k]]
            /\ Len(AllCandidates) > 0 => Len(Val(waves)) > 0

\* Unvalidated candidates of both types returned with the default confidences.
C9_Witness ==
    /\ pc = "waves"
    /\ ~ Delegates
    /\ Len(SelectSeq(AllCandidates, Passes)) = 0
    /\ \E j \in 1..Len(Val(waves)), k \in 1..Len(Val(waves)) :
          /\ Val(waves)[j].type = "Impulse" /\ Val(waves)[j].confidence = 85
          /\ Val(waves)[k].type = "Corrective" /\ Val(waves)[k].confidence = 75

\* C10: every wave of every collection analyze_wave_structure returns
\* (validated, unvalidated or synthetic) has a confidence c with
\* 0.0 <= c <= 1.0.
C10_ConfidenceInUnitInterval ==
    pc = "waves" =>
        \A k \in 1..Len(Val(waves)) :
            /\ "confidence" \in DOMAIN Val(waves)[k]
            /\ 0 <= Val(waves)[k].confidence
            /\ Val(waves)[k].confidence <= 100

\* A validated wave with a computed confidence above the base 0.5.
C10_Witness ==
    /\ pc = "waves"
    /\ \E k \in 1..Len(Val(waves)) :
          /\ "fibonacci_levels" \in DOMAIN Val(waves)[k]
          /\ Val(waves)[k].confidence > 50

\* The Down rule on four consecutive pivot prices (0, A, B, C), and its
\* mirror image.
CorrectiveDownRule(w0, wA, wB, wC) == wA < w0 /\ wA < wB /\ wB < w0 /\ wC < wA

CorrectiveUpRule(w0, wA, wB, wC) == CorrectiveDownRule(0 - w0, 0 - wA, 0 - wB, 0 - wC)

\* The window of four pivots at offset st (from 0) is a correction in
\* direction dir.
CorrectiveWindowMatches(st, dir) ==
    /\ st + 3 < Len(Kept.pivots)
    /\ \A k \in 0..3 :
          At(Kept.pivot_types, st + k)
              = KindOf(IF dir = "down" THEN "peak" ELSE "valley", k + 1)
    /\ IF dir = "down"
       THEN CorrectiveDownRule(PivotPrice(st), PivotPrice(st + 1),
                               PivotPrice(st + 2), PivotPrice(st + 3))
       ELSE CorrectiveUpRule(PivotPrice(st), PivotPrice(st + 1),
                             PivotPrice(st + 2), PivotPrice(st + 3))

FoundCorrectives == {<<w.legs["0"].idx, w.direction>> : w \in Range(Val(ret))}

CorrectiveWindows(starts) ==
    {x \in {<<st, dir>> : st \in starts, dir \in {"up", "down"}} :
        CorrectiveWindowMatches(x[1], x[2])}

\* C21: the corrective search examines every window of four consecutive
\* pivots, at every start offset, the window of the last four pivots
\* included: each window with kinds peak-valley-peak-valley and prices
\* A < 0, A < B < 0, C < A yields one Down candidate, each mirrored window
\* one Up candidate.  Stated for the pivot sequences on which
\* analyze_wave_structure runs the search (line 287).
C21_EveryCorrectiveWindowYieldsCandidate ==
    (pc = "corrective_searched" /\ ~ Delegates) =>
        /\ FoundCorrectives = AsFound(CorrectiveWindows(0..(Len(Kept.pivots) - 4)))
        /\ Len(Val(ret)) = Cardinality(FoundCorrectives)

\* C24: analyze_wave_structure leaves the work to the alternative builder
\* whenever fewer than 6 pivots remain after the alternation filter: with
\* exactly 5 pivots left it returns the alternative builder's single
\* synthetic impulse wave.
C24_FewerThanSixPivotsDelegate ==
    (pc = "waves" /\ Len(Kept.pivots) < 6) =>
        Val(waves) = create_alternative_wave_structure(data)

\* The price of the series at index i is the lowest (direction "up") or the
\* highest (direction "down") of the indices within half a step of centre.
ExtremeNear(i, centre, half, direction) ==
    /\ Abs(i - centre) <= half
    /\ \A j \in Indices(data) :
          Abs(j - centre) <= half =>
              IF direction = "up" THEN At(data, i) <= At(data, j)
              ELSE At(data, i) >= At(data, j)

\* C25: the alternative builder places leg 2 at the minimum (Up) or maximum
\* (Down) price within half a segment of index 2 * step and leg 4 within
\* half a segment of index 4 * step, with step = len(prices) // 6, so that
\* the leg indices of the synthetic wave strictly increase in label order.
C25_SyntheticLegsInOrder ==
    (pc = "waves" /\ Delegates) =>
        LET wave == Val(waves)[1]
            step == Len(data) \div 6
            idx(l) == wave.legs[l].idx
        IN  /\ ExtremeNear(idx("2"), 2 * step, step \div 2, wave.direction)
            /\ ExtremeNear(idx("4"), 4 * step, step \div 2, wave.direction)
            /\ idx("0") < idx("1") /\ idx("1") < idx("2") /\ idx("2") < idx("3")
            /\ idx("3") < idx("4") /\ idx("4") < idx("5")

\* C30: for every wave collection analyze_wave_structure produces and a
\* positive current price, a Buy signal has
\* stop_loss < entry < take_profit <= 1.2 * entry, and a Sell signal has
\* 0.8 * entry <= take_profit < entry < stop_loss.
C30_SignalLevelsOrdered ==
    (pc = "signals" /\ Val(trading_signals) # EmptyDict) =>
        LET signal == Val(trading_signals)
        IN  /\ signal.direction = "buy" =>
                  /\ signal.stop_loss < signal.entry
                  /\ signal.entry < signal.take_profit
                  /\ 10 * signal.take_profit <= 12 * signal.entry
            /\ signal.direction = "sell" =>
                  /\ 10 * signal.take_profit >= 8 * signal.entry
                  /\ signal.take_profit < signal.entry
                  /\ signal.entry < signal.stop_loss

\* A Buy signal for a collection with an Up impulse and Up corrections: the
\* take profit is the projection of wave 1, below 1.2 * entry, and the stop
\* loss is taken from a correction that starts below the current price.
C30_Witness ==
    /\ pc = "signals"
    /\ Val(trading_signals) # EmptyDict
    /\ Val(trading_signals).direction = "buy"
    /\ \E k \in 1..Len(Val(waves)) :
          Val(waves)[k].type = "Impulse" /\ Val(waves)[k].direction = "up"
    /\ 10 * Val(trading_signals).take_profit < 12 * Val(trading_signals).entry
    /\ 100 * Val(trading_signals).stop_loss < 98 * Val(trading_signals).entry

(***************************************************************************)
(* determine_current_wave and generate_trading_signals called on wave      *)
(* collections built directly, forming (incomplete) waves included         *)
(* (specification SpecState).                                              *)
(***************************************************************************)
LastLabels(type) ==
    IF type = "Impulse" THEN {"0", "1", "2", "3", "4", "5"} ELSE {"0", "A", "B", "C"}

\* A wave of the given type and direction with its legs up to last, starting
\* at index idx0, with the given confidence and key ordinal.
StateWave(type, direction, last, idx0, confidence, ord) ==
    LET labels == IF type = "Impulse" THEN <<"0", "1", "2", "3", "4", "5">>
                  ELSE <<"0", "A", "B", "C">>
        whole == IF type = "Impulse"
                 THEN ImpulseFromLegs(CraftedSteps[1], CraftedSteps[2], CraftedSteps[3],
                                      CraftedSteps[4], direction)
                 ELSE CorrectiveFromLegs(MaxLeg, MaxStep, MaxLeg, direction)
        cut == Truncate(whole, labels, last)
    IN  [confidence |-> confidence]
        @@ [cut EXCEPT !.ord = ord,
                       !.legs = [l \in DOMAIN cut.legs |->
                                    [cut.legs[l] EXCEPT !.idx = @ + idx0]]]

WaveTypes == {"Impulse", "Corrective"}
WaveDirections == {"up", "down"}
StartIndices == {0, MaxStart}
Confidences == {60, 90}

InitState ==
    /\ pc = "waves"
    /\ \E t1 \in WaveTypes, d1 \in WaveDirections, i1 \in StartIndices, c1 \in Confidences :
          \E l1 \in LastLabels(t1) :
             \/ waves = Some(<<StateWave(t1, d1, l1, i1, c1, 0)>>)
             \/ \E t2 \in WaveTypes, d2 \in WaveDirections, i2 \in StartIndices,
                   c2 \in Confidences :
                   \E l2 \in LastLabels(t2) :
                      waves = Some(<<StateWave(t1, d1, l1, i1, c1, 0),
                                     StateWave(t2, d2, l2, i2, c2,
                                               IF t2 = t1 THEN 1 ELSE 0)>>)
    /\ data \in {<<Base - MaxLeg>>, <<Base + MaxLeg>>}
    /\ sensitivity = 5
    /\ peaks = None
    /\ valleys = None
    /\ current_wave = None
    /\ patterns = None
    /\ trading_signals = None
    /\ result = None
    /\ ret = None

NextState ==
    \/ DetermineCurrentWave
    \/ GenerateSignalsDirect

SpecState == InitState /\ [][NextState]_vars

\* The wave determine_current_wave selected.
Selected == Val(waves)[SelectedWave(Val(waves))]

Confirmed ==
    /\ pc = "signals"
    /\ Val(current_wave).trend_confirmed
    /\ Val(current_wave).entry_signal

\* The selected wave is an impulse with legs through 2 or through 4, or a
\* completed corrective.
LegsThrough(last, after) ==
    /\ last \in DOMAIN Selected.legs
    /\ after \notin DOMAIN Selected.legs

EntryCase ==
    \/ Selected.type = "Impulse" /\ (LegsThrough("2", "3") \/ LegsThrough("4", "5"))
    \/ Selected.type = "Corrective" /\ "C" \in DOMAIN Selected.legs

\* The move expected next is up for an Up impulse and for a Down
\* corrective, down for a Down impulse and for an Up corrective.
ExpectedMove ==
    IF Selected.type = "Impulse"
    THEN Selected.direction
    ELSE (IF Selected.direction = "down" THEN "up" ELSE "down")

\* C4: when the wave state has trend_confirmed and entry_signal both true,
\* generate_trading_signals, fed that state, returns Buy when the expected
\* move is up (Up impulse with legs through 2 or through 4, or a completed
\* Down corrective) and Sell when the expected move is down (Down impulse
\* with legs through 2 or through 4, or a completed Up corrective).
C4_ConfirmedSignalFollowsExpectedMove ==
    (Confirmed /\ EntryCase) =>
        Val(trading_signals).direction = (IF ExpectedMove = "up" THEN "buy" ELSE "sell")

\* The completed waves of the collection (positions), and the position the
\* scan of determine_current_wave holds as the latest completed wave.
CompletedWaves == {k \in 1..Len(Val(waves)) : IsComplete(Val(waves)[k])}

LatestCompleted == ScanResult(Val(waves)).completed

\* C11: among the completed waves of the collection, determine_current_wave
\* takes as the latest completed wave the one with the highest end index
\* (leg 5 or leg C), and confidence decides only between waves with equal
\* end index.
C11_LatestCompletedHasHighestEnd ==
    (pc = "current" /\ CompletedWaves # {}) =>
        /\ LatestCompleted \in CompletedWaves
        /\ \A k \in CompletedWaves :
              \/ EndIdx(Val(waves)[LatestCompleted]) > EndIdx(Val(waves)[k])
              \/ /\ EndIdx(Val(waves)[LatestCompleted]) = EndIdx(Val(waves)[k])
                 /\ ConfidenceOr(Val(waves)[LatestCompleted], 50)
                       >= ConfidenceOr(Val(waves)[k], 50)

\* The labels and flags of the returned state.
StateIs(cur, next, confirmed, entry) ==
    /\ Val(current_wave).current_wave = cur
    /\ Val(current_wave).next_wave = next
    /\ Val(current_wave).trend_confirmed = confirmed
    /\ Val(current_wave).entry_signal = entry

\* C12: for a selected impulse wave of either direction: with only legs 0
\* and 1 the state is current "0/1", next "1/2", trend_confirmed and
\* entry_signal false; with legs through 2 it is "2", "3", both true; with
\* legs through 4 it is "4", "5", both true; with legs through 5 it is "5",
\* "A", both false, with exactly 5 correction targets.
C12_ImpulseTransitionTable ==
    (pc = "current" /\ Selected.type = "Impulse") =>
        /\ DOMAIN Selected.legs \subseteq {"0", "1"} => StateIs("0/1", "1/2", FALSE, FALSE)
        /\ LegsThrough("2", "3") => StateIs("2", "3", TRUE, TRUE)
        /\ LegsThrough("4", "5") => StateIs("4", "5", TRUE, TRUE)
        /\ "5" \in DOMAIN Selected.legs =>
              /\ StateIs("5", "A", FALSE, FALSE)
              /\ Len(Val(current_wave).correction_targets) = 5

\* A Down impulse through leg 5 selected, with its five targets above leg 5.
C12_Witness ==
    /\ pc = "current"
    /\ Selected.type = "Impulse"
    /\ Selected.direction = "down"
    /\ "5" \in DOMAIN Selected.legs
    /\ Len(Val(waves)) = 2
    /\ Val(current_wave).correction_targets[1] > 1000 * Price(Selected, "5")

\* C13: for a selected corrective wave of either direction: with only leg
\* 0 the state is current "0", next "A", progress 0; through A it is "A",
\* "B", progress 33; through B it is "B", "C", progress 67, all three with
\* trend_confirmed and entry_signal false; through C it is "C", "1" with
\* trend_confirmed and entry_signal true.
C13_CorrectiveTransitionTable ==
    (pc = "current" /\ Selected.type = "Corrective") =>
        /\ DOMAIN Selected.legs = {"0"} =>
              StateIs("0", "A", FALSE, FALSE) /\ Val(current_wave).correction_progress = 0
        /\ LegsThrough("A", "B") =>
              StateIs("A", "B", FALSE, FALSE) /\ Val(current_wave).correction_progress = 33
        /\ LegsThrough("B", "C") =>
              StateIs("B", "C", FALSE, FALSE) /\ Val(current_wave).correction_progress = 67
        /\ "C" \in DOMAIN Selected.legs => StateIs("C", "1", TRUE, TRUE)

\* A corrective through B selected after an older wave of the collection.
C13_Witness ==
    /\ pc = "current"
    /\ Selected.type = "Corrective"
    /\ LegsThrough("B", "C")
    /\ SelectedWave(Val(waves)) = 2
    /\ Val(current_wave).correction_progress = 67

\* The last close, in thousandths.
CurrentPrice == 1000 * data[Len(data)]

DefaultStops ==
    /\ Val(trading_signals).stop_loss * 10 = CurrentPrice * 9
    /\ Val(trading_signals).take_profit * 10 = CurrentPrice * 11

Reversed(ws) == [k \in 1..Len(ws) |-> ws[Len(ws) + 1 - k]]

\* C20: determine_current_wave does not depend on the insertion order of
\* the collection: the collection holding the same keys and waves in the
\* opposite order gives the same returned state (labels, position, flags,
\* confidence, targets).
C20_InsertionOrderIrrelevant ==
    pc = "current" =>
        Val(current_wave) = determine_current_wave(Reversed(Val(waves)))

\* The leg-0 prices of the corrective waves of the collection that have the
\* given direction.
CorrectiveStarts(direction) ==
    {Price(Val(waves)[k], "0") :
        k \in {k \in 1..Len(Val(waves)) : /\ Val(waves)[k].type = "Corrective"
                                          /\ Direction(Val(waves)[k]) = direction
                                          /\ "0" \in DOMAIN Val(waves)[k].legs}}

SetMin(S) == CHOOSE v \in S : \A u \in S : v <= u
SetMax(S) == CHOOSE v \in S : \A u \in S : v >= u

\* C26: for a Buy signal stop_loss is 0.98 times the minimum leg-0 price
\* over all Up corrective waves of the collection, and 0.98 times the
\* current price only when the collection has no Up corrective wave; for a
\* Sell signal it is 1.02 times the maximum leg-0 price over all Down
\* corrective waves, and 1.02 times the current price only when there is
\* none.
C26_StopLossFromCorrectiveStarts ==
    (pc = "signals" /\ Val(trading_signals) # EmptyDict) =>
        LET price == data[Len(data)]
            signal == Val(trading_signals)
        IN  /\ signal.direction = "buy" =>
                  signal.stop_loss = 980 * (IF CorrectiveStarts("up") = {} THEN price
                                            ELSE SetMin(CorrectiveStarts("up")))
            /\ signal.direction = "sell" =>
                  signal.stop_loss = 1020 * (IF CorrectiveStarts("down") = {} THEN price
                                             ELSE SetMax(CorrectiveStarts("down")))

\* C27: determine_current_wave reports wave_status "forming" exactly when
\* the wave it selected is a forming (incomplete) wave, and "completed"
\* exactly when it selected a completed wave.
C27_WaveStatusOfSelectedWave ==
    (pc = "current" /\ SelectedWave(Val(waves)) # 0) =>
        Val(current_wave).wave_status
            = (IF IsComplete(Selected) THEN "completed" ELSE "forming")

\* A completed impulse wave is the selected one.
CompletedImpulseSelected ==
    /\ Len(Val(waves)) > 0
    /\ SelectedWave(Val(waves)) # 0
    /\ Selected.type = "Impulse"
    /\ IsComplete(Selected)

\* The retracement ratios of the correction targets, in thousandths.
Retracements == <<236, 382, 500, 618, 786>>

\* v lies between a and b, whichever is the larger.
Between(v, a, b) == (a <= v /\ v <= b) \/ (b <= v /\ v <= a)

\* C28: whenever determine_current_wave selects a completed impulse wave
\* (Up or Down, the alternative builder's synthetic wave included),
\* correction_targets holds exactly 5 prices, the 23.6%, 38.2%, 50%, 61.8%
\* and 78.6% retracements, each between the wave's leg-5 price and its
\* leg-0 price and ordered from the nearest to leg 5 to the nearest to leg
\* 0; in every other state correction_targets is empty.
C28_CorrectionTargetsRetrace ==
    pc = "current" =>
        LET t == Val(current_wave).correction_targets
        IN  IF CompletedImpulseSelected
            THEN LET p5 == 1000 * Price(Selected, "5")
                     p0 == 1000 * Price(Selected, "0")
                 IN  /\ Len(t) = 5
                     /\ \A k \in 1..5 : Between(t[k], p5, p0)
                     /\ \A k \in 1..5 :
                           1000 * Abs(t[k] - p5) = Retracements[k] * Abs(p0 - p5)
                     /\ \A k \in 1..4 : Abs(t[k] - p5) <= Abs(t[k + 1] - p5)
            ELSE t = <<>>

\* C29: in every state determine_current_wave returns, entry_signal equals
\* trend_confirmed, correction_phase and trend_confirmed are never both
\* true, and correction_progress is one of 0, 33, 67 and is non-zero only
\* for a corrective wave with legs through A or through B.
C29_StateFlagsConsistent ==
    pc = "current" =>
        LET cw == Val(current_wave)
        IN  /\ cw.entry_signal = cw.trend_confirmed
            /\ ~ (cw.correction_phase /\ cw.trend_confirmed)
            /\ cw.correction_progress \in {0, 33, 67}
            /\ cw.correction_progress # 0 =>
                  /\ SelectedWave(Val(waves)) # 0
                  /\ Selected.type = "Corrective"
                  /\ LegsThrough("A", "B") \/ LegsThrough("B", "C")

\* A correction through B selected out of two waves: progress 67, no entry.
C29_Witness ==
    /\ pc = "current"
    /\ Len(Val(waves)) = 2
    /\ Selected.type = "Corrective"
    /\ LegsThrough("B", "C")
    /\ Val(current_wave).correction_progress = 67
    /\ Val(current_wave).correction_phase
    /\ ~ Val(current_wave).entry_signal

====
